---------------------------- MODULE Spec2Model ----------------------------
(***************************************************************************)
(* A model of the DoD/NATO label generators of drum-label-generator:       *)
(* the dashboard engine (dod_label_app.py), the PDF generator              *)
(* (dod_label_generator.py) and the CLI PNG generator                      *)
(* (dod_label_generator_png.py).                                           *)
(*                                                                         *)
(* A Python string is a sequence of one-character strings.  A raw field    *)
(* value is a record [k, s, n]: k is the kind ("absent": the key is not in *)
(* the row, "None", "NaN", "str", "int"), s the characters of a str, n the *)
(* number of an int.  A datetime is a record [y, m, d].                    *)
(***************************************************************************)
EXTENDS Integers, Sequences, FiniteSets, TLC

VARIABLES
    self,            \* the DoDLabelGenerator instance: its fields
    row,             \* create_label_png: the field record being rendered
    pc,              \* create_label_png: the section about to run
    y_pos,           \* create_label_png local: the vertical cursor
    use_by_date,     \* create_label_png local: the use-by text
    expiry_date_obj, \* create_label_png local: the expiry datetime or NoDate
    dom_formatted,   \* create_label_png local: the date-of-manufacture text
    header,          \* the two header texts drawn
    nato_stock,      \* create_label_png local: the normalized NSN
    niin,            \* create_label_png local: the text drawn next to 'NIIN:'
    hazmat_code,     \* create_label_png local: the normalized hazard code
    barcodes,        \* the payload of each barcode pasted (NoData: none)
    batch_lot,       \* create_label_png local: the normalized batch
    table_data,      \* create_label_png local: the table's (label, value) rows
    drawn,           \* the optional and late elements drawn so far
    call,            \* a direct call of one engine function: its arguments
    ret,             \* that call's return value
    save,            \* save_products_json: the three files and its position
    mgr,             \* the product manager page: products_db and its position
    job,             \* generate_all_labels: the input file and the loop
    labels,          \* the labels one instance's create_label_png returned
    page,            \* show_label_generator: widgets, messages, session state
    png              \* the CLI PNG generator's create_label_png: its locals

renderVars == << self, row, pc, y_pos, use_by_date, expiry_date_obj,
                 dom_formatted, header, nato_stock, niin, hazmat_code,
                 barcodes, batch_lot, table_data, drawn >>

callVars == << call, ret >>

appVars == << save, mgr, job, labels, page, png >>

vars == << renderVars, callVars, appVars >>

-----------------------------------------------------------------------------
(* Python values *)

Absent == [k |-> "absent", s |-> << >>, n |-> 0]
None == [k |-> "None", s |-> << >>, n |-> 0]
NaN == [k |-> "NaN", s |-> << >>, n |-> 0]
Str(chars) == [k |-> "str", s |-> chars, n |-> 0]
Num(i) == [k |-> "int", s |-> << >>, n |-> i]

NoDate == [y |-> 0, m |-> 0, d |-> 0]
NoData == << "<none>" >>

Digits == << "0", "1", "2", "3", "4", "5", "6", "7", "8", "9" >>
Uppers == << "A", "B", "C", "D", "E", "F", "G", "H", "I", "J", "K", "L", "M",
             "N", "O", "P", "Q", "R", "S", "T", "U", "V", "W", "X", "Y", "Z" >>
Lowers == << "a", "b", "c", "d", "e", "f", "g", "h", "i", "j", "k", "l", "m",
             "n", "o", "p", "q", "r", "s", "t", "u", "v", "w", "x", "y", "z" >>
Whitespace == { " ", "\t", "\n" }
GS == "<GS>"

Range(f) == { f[i] : i \in DOMAIN f }
IsDigit(c) == c \in Range(Digits)
DigitVal(c) == (CHOOSE i \in 1..10 : Digits[i] = c) - 1
AllDigits(chars) == \A i \in 1..Len(chars) : IsDigit(chars[i])

Min(a, b) == IF a <= b THEN a ELSE b

\* str.lower(), one character
LowerChar(c) ==
    IF \E i \in 1..26 : Uppers[i] = c
    THEN Lowers[CHOOSE i \in 1..26 : Uppers[i] = c]
    ELSE c

\* str.upper(), one character
UpperChar(c) ==
    IF \E i \in 1..26 : Lowers[i] = c
    THEN Uppers[CHOOSE i \in 1..26 : Lowers[i] = c]
    ELSE c

Lower(chars) == [i \in 1..Len(chars) |-> LowerChar(chars[i])]
Upper(chars) == [i \in 1..Len(chars) |-> UpperChar(chars[i])]

\* str.strip()
RECURSIVE LStrip(_)
LStrip(chars) ==
    IF chars # << >> /\ Head(chars) \in Whitespace
    THEN LStrip(Tail(chars))
    ELSE chars

RECURSIVE RStrip(_)
RStrip(chars) ==
    IF chars # << >> /\ chars[Len(chars)] \in Whitespace
    THEN RStrip(SubSeq(chars, 1, Len(chars) - 1))
    ELSE chars

Strip(chars) == RStrip(LStrip(chars))

\* s[:n]
Prefix(chars, n) == SubSeq(chars, 1, Min(n, Len(chars)))

\* s[-n:]
Suffix(chars, n) ==
    IF Len(chars) <= n THEN chars
    ELSE SubSeq(chars, Len(chars) - n + 1, Len(chars))

\* ''.join(filter(str.isdigit, s))
RECURSIVE FilterDigits(_)
FilterDigits(chars) ==
    IF chars = << >> THEN << >>
    ELSE IF IsDigit(Head(chars))
         THEN << Head(chars) >> \o FilterDigits(Tail(chars))
         ELSE FilterDigits(Tail(chars))

\* s.zfill(n) of a string without a sign
RECURSIVE ZFill(_, _)
ZFill(chars, n) ==
    IF Len(chars) >= n THEN chars ELSE ZFill(<< "0" >> \o chars, n)

\* s.split(sep): the parts between the occurrences of the character sep
RECURSIVE Split(_, _)
Split(chars, sep) ==
    IF \A i \in 1..Len(chars) : chars[i] # sep THEN << chars >>
    ELSE LET p == CHOOSE i \in 1..Len(chars) :
                      /\ chars[i] = sep
                      /\ \A j \in 1..(i - 1) : chars[j] # sep
         IN  << SubSeq(chars, 1, p - 1) >>
                 \o Split(SubSeq(chars, p + 1, Len(chars)), sep)

\* the decimal digits of a natural number
RECURSIVE NatStr(_)
NatStr(i) ==
    IF i < 10 THEN << Digits[i + 1] >>
    ELSE NatStr(i \div 10) \o << Digits[(i % 10) + 1] >>

\* the value of a string of digits
RECURSIVE DigitsVal(_)
DigitsVal(chars) ==
    IF chars = << >> THEN 0
    ELSE 10 * DigitsVal(SubSeq(chars, 1, Len(chars) - 1))
             + DigitVal(chars[Len(chars)])

\* str(value)
PyStr(v) ==
    CASE v.k = "str" -> v.s
      [] v.k = "None" -> << "N", "o", "n", "e" >>
      [] v.k = "NaN" -> << "n", "a", "n" >>
      [] v.k = "int" -> IF v.n < 0 THEN << "-" >> \o NatStr(-v.n) ELSE NatStr(v.n)
      [] OTHER -> << >>

\* the truth value of a Python value
Truthy(v) ==
    CASE v.k = "str" -> v.s # << >>
      [] v.k = "None" -> FALSE
      [] v.k = "NaN" -> TRUE
      [] v.k = "int" -> v.n # 0
      [] OTHER -> FALSE

\* pd.isna(value) / pd.notna(value) of a scalar
IsNa(v) == v.k \in { "None", "NaN" }
NotNa(v) == ~IsNa(v)

\* row.get(key, default)
Get(r, key, default) == IF r[key].k = "absent" THEN default ELSE r[key]

-----------------------------------------------------------------------------
(* Dates: datetime.strptime, strftime, relativedelta, timedelta *)

IsLeap(y) == (y % 4 = 0 /\ y % 100 # 0) \/ y % 400 = 0

\* calendar.monthrange(y, m)[1]
DaysInMonth(y, m) ==
    CASE m \in { 1, 3, 5, 7, 8, 10, 12 } -> 31
      [] m \in { 4, 6, 9, 11 } -> 30
      [] OTHER -> IF IsLeap(y) THEN 29 ELSE 28

MAXYEAR == 9999

ValidDate(dt) ==
    /\ dt.y \in 1..MAXYEAR
    /\ dt.m \in 1..12
    /\ dt.d \in 1..DaysInMonth(dt.y, dt.m)

\* the %d and %m directives: one or two digits (for %d also a blank and a
\* digit), not zero
DayOrMonthField(chars, blankOk) ==
    \/ Len(chars) \in { 1, 2 } /\ AllDigits(chars) /\ DigitsVal(chars) > 0
    \/ blankOk /\ Len(chars) = 2 /\ chars[1] = " " /\ IsDigit(chars[2])
          /\ chars[2] # "0"

FieldVal(chars) == DigitsVal(FilterDigits(chars))

\* datetime.strptime(s, "%d/%m/%Y"): the datetime, or NoDate for ValueError
StrpTime(chars) ==
    LET parts == Split(chars, "/") IN
    IF /\ Len(parts) = 3
       /\ DayOrMonthField(parts[1], TRUE)
       /\ DayOrMonthField(parts[2], FALSE)
       /\ Len(parts[3]) = 4 /\ AllDigits(parts[3])
    THEN LET dt == [y |-> DigitsVal(parts[3]), m |-> FieldVal(parts[2]),
                    d |-> FieldVal(parts[1])]
         IN  IF ValidDate(dt) THEN dt ELSE NoDate
    ELSE NoDate

TwoDigits(i) == << Digits[((i \div 10) % 10) + 1], Digits[(i % 10) + 1] >>
FourDigits(i) == TwoDigits(i \div 100) \o TwoDigits(i % 100)

MonthAbbr ==
    << << "J", "a", "n" >>, << "F", "e", "b" >>, << "M", "a", "r" >>,
       << "A", "p", "r" >>, << "M", "a", "y" >>, << "J", "u", "n" >>,
       << "J", "u", "l" >>, << "A", "u", "g" >>, << "S", "e", "p" >>,
       << "O", "c", "t" >>, << "N", "o", "v" >>, << "D", "e", "c" >> >>

\* dt.strftime("%d/%m/%Y")
StrfDMY(dt) ==
    TwoDigits(dt.d) \o << "/" >> \o TwoDigits(dt.m) \o << "/" >> \o FourDigits(dt.y)

\* dt.strftime("%y%m%d")
StrfYYMMDD(dt) == TwoDigits(dt.y % 100) \o TwoDigits(dt.m) \o TwoDigits(dt.d)

\* dt.strftime("%d %b %y").upper()
StrfUseBy(dt) ==
    Upper(TwoDigits(dt.d) \o << " " >> \o MonthAbbr[dt.m] \o << " " >>
              \o TwoDigits(dt.y % 100))

\* dt.strftime("%d %b %Y").upper()
StrfUseByLong(dt) ==
    Upper(TwoDigits(dt.d) \o << " " >> \o MonthAbbr[dt.m] \o << " " >>
              \o FourDigits(dt.y))

\* dt.strftime("%d%b%y").upper()
StrfUseByBarcode(dt) ==
    Upper(TwoDigits(dt.d) \o MonthAbbr[dt.m] \o TwoDigits(dt.y % 100))

\* dt.strftime("%b %Y").upper()
StrfMonthYear(dt) == Upper(MonthAbbr[dt.m] \o << " " >> \o FourDigits(dt.y))

\* dt + relativedelta(months=n): relativedelta normalizes n months to years
\* and months, adds them, and cuts the day to the target month's length;
\* NoDate for the OverflowError/ValueError of a year outside 1..MAXYEAR
AddMonthsRaw(dt, n) ==
    LET sign == IF n < 0 THEN -1 ELSE 1
        years == sign * ((sign * n) \div 12)
        months == sign * ((sign * n) % 12)
        m0 == dt.m + months
        year == dt.y + years + (IF m0 > 12 THEN 1 ELSE IF m0 < 1 THEN -1 ELSE 0)
        month == IF m0 > 12 THEN m0 - 12 ELSE IF m0 < 1 THEN m0 + 12 ELSE m0
    IN  [y |-> year, m |-> month, d |-> Min(DaysInMonth(year, month), dt.d)]

AddMonths(dt, n) ==
    IF AddMonthsRaw(dt, n).y \in 1..MAXYEAR THEN AddMonthsRaw(dt, n) ELSE NoDate

\* dt + timedelta(days=n), n >= 0
RECURSIVE AddDays(_, _)
AddDays(dt, n) ==
    IF dt.d + n <= DaysInMonth(dt.y, dt.m) THEN [dt EXCEPT !.d = dt.d + n]
    ELSE AddDays([y |-> IF dt.m = 12 THEN dt.y + 1 ELSE dt.y,
                  m |-> IF dt.m = 12 THEN 1 ELSE dt.m + 1,
                  d |-> 1],
                 n - (DaysInMonth(dt.y, dt.m) - dt.d + 1))

\* dt - timedelta(days=n), n >= 0
RECURSIVE SubDays(_, _)
SubDays(dt, n) ==
    IF n < dt.d THEN [dt EXCEPT !.d = dt.d - n]
    ELSE LET py == IF dt.m = 1 THEN dt.y - 1 ELSE dt.y
             pm == IF dt.m = 1 THEN 12 ELSE dt.m - 1
         IN  SubDays([y |-> py, m |-> pm, d |-> DaysInMonth(py, pm)], n - dt.d)

\* int(value) succeeds (no ValueError/TypeError).  int() of a str strips
\* blanks and takes an optional sign and digits.
IntBody(chars) ==
    LET t == Strip(chars) IN
    IF t # << >> /\ Head(t) \in { "-", "+" } THEN Tail(t) ELSE t

CanInt(v) ==
    \/ v.k = "int"
    \/ v.k = "str" /\ IntBody(v.s) # << >> /\ AllDigits(IntBody(v.s))

\* int(value), where it succeeds
IntOf(v) ==
    IF v.k = "int" THEN v.n
    ELSE IF Strip(v.s) # << >> /\ Head(Strip(v.s)) = "-"
         THEN -DigitsVal(IntBody(v.s))
         ELSE DigitsVal(IntBody(v.s))

-----------------------------------------------------------------------------
(* The dashboard engine: dod_label_app.DoDLabelGenerator *)

NA_TEXT == << "N", "/", "A" >>
DASH == << "-" >>
DEFAULT_SHELF_LIFE == 24

\* calculate_dates with the shelf life counted as 30 days a month, as the
\* batch generators count it
calculate_dates_thirty_days(manufacture_date, shelf_life_months) ==
    LET date_obj == StrpTime(PyStr(manufacture_date))
        failed == [text |-> NA_TEXT, date |-> NoDate]
    IN  IF date_obj = NoDate THEN failed
        ELSE IF NotNa(shelf_life_months) /\ ~CanInt(shelf_life_months) THEN failed
        ELSE LET months == IF NotNa(shelf_life_months)
                           THEN IntOf(shelf_life_months)
                           ELSE DEFAULT_SHELF_LIFE
                 expiry_date == AddDays(date_obj, months * 30)
             IN  [text |-> StrfUseBy(expiry_date), date |-> expiry_date]

\* calculate_dates(manufacture_date, shelf_life_months) -> (text, datetime)
calculate_dates(manufacture_date, shelf_life_months) ==
    LET date_obj == StrpTime(PyStr(manufacture_date))
        failed == [text |-> NA_TEXT, date |-> NoDate]
    IN  IF date_obj = NoDate THEN failed
        ELSE IF NotNa(shelf_life_months) /\ ~CanInt(shelf_life_months) THEN failed
        ELSE LET months == IF NotNa(shelf_life_months)
                           THEN IntOf(shelf_life_months)
                           ELSE DEFAULT_SHELF_LIFE
                 expiry_date == AddMonths(date_obj, months)
             IN  IF expiry_date = NoDate THEN failed
                 ELSE [text |-> StrfUseBy(expiry_date), date |-> expiry_date]

\* format_date_display(date_str), date_str a str
format_date_display(date_str) ==
    IF StrpTime(date_str) # NoDate THEN StrfMonthYear(StrpTime(date_str))
    ELSE IF date_str # << >> /\ date_str # << "n", "a", "n" >>
         THEN date_str
         ELSE DASH

blank_values ==
    { << "n", "o", "t", " ", "a", "p", "p", "l", "i", "c", "a", "b", "l", "e",
         " ", "o", "r", " ", "b", "l", "a", "n", "k" >>,
      << "-", "/", "b", "l", "a", "n", "k" >>,
      << "n", "/", "a" >>,
      << >>,
      << "-" >>,
      << "b", "l", "a", "n", "k" >>,
      << "n", "a" >>,
      << "n", "o", "n", "e" >> }

\* safe_str comparing the tokens without lowering the value
safe_str_case_sensitive(value, default) ==
    IF IsNa(value) \/ value.k = "None"
          \/ PyStr(value) = << "n", "a", "n" >>
    THEN default
    ELSE IF Strip(PyStr(value)) \in blank_values
         THEN default
         ELSE Strip(PyStr(value))

\* safe_str(value, default)
safe_str(value, default) ==
    IF IsNa(value) \/ value.k = "None"
          \/ Lower(PyStr(value)) = << "n", "a", "n" >>
    THEN default
    ELSE IF Lower(Strip(PyStr(value))) \in blank_values
         THEN default
         ELSE Strip(PyStr(value))

CODE128_MAX == 20

\* generate_code128(data): the characters encoded, NoData when it returns None
generate_code128(data) ==
    LET data_str == Prefix(Strip(data), CODE128_MAX) IN
    IF data_str = << >> \/ data_str = DASH THEN NoData ELSE data_str

NIIN_LEN == 9

\* generate_code39(data): the characters encoded, NoData when it returns None
generate_code39(data) ==
    LET data_str == Strip(data) IN
    IF data_str = << >> \/ data_str = DASH THEN NoData
    ELSE IF ~(AllDigits(data_str) /\ Len(data_str) = NIIN_LEN)
         THEN Prefix(ZFill(data_str, NIIN_LEN), NIIN_LEN)
         ELSE data_str

NSN_LEN == 13
BATCH_MAX == 20
AI_NSN == << "7", "0", "0", "1" >>
AI_BATCH == << "1", "0" >>
AI_EXPIRY == << "1", "7" >>
AI_SERIAL == << "2", "1" >>
DEFAULT_EXPIRY == << "9", "9", "0", "1", "0", "1" >>

\* the NSN digits cut to 13 but never padded
nsn_digits_unpadded(nsn) ==
    Suffix(FilterDigits(PyStr(nsn)), NSN_LEN)

\* the 13 NSN digits of generate_gs1_datamatrix
nsn_digits(nsn) ==
    IF Len(FilterDigits(PyStr(nsn))) # NSN_LEN
    THEN Suffix(ZFill(FilterDigits(PyStr(nsn)), NSN_LEN), NSN_LEN)
    ELSE FilterDigits(PyStr(nsn))

\* the batch string of generate_gs1_datamatrix
batch_str(batch) ==
    IF Truthy(batch) /\ NotNa(batch) THEN Prefix(PyStr(batch), BATCH_MAX) ELSE << >>

\* the expiry string of generate_gs1_datamatrix
expiry_str(expiry) ==
    IF expiry # NoDate THEN StrfYYMMDD(expiry) ELSE DEFAULT_EXPIRY

\* generate_gs1_datamatrix(nsn, batch_lot, expiry_date_obj): gs1_data, the
\* string handed to dmtx_encode
generate_gs1_datamatrix(nsn, batch, expiry) ==
    AI_NSN \o nsn_digits(nsn) \o << GS >> \o AI_BATCH \o batch_str(batch)
        \o << GS >> \o AI_EXPIRY \o expiry_str(expiry)

-----------------------------------------------------------------------------
(* Python floats: IEEE 754 binary64, every operation rounded to nearest,   *)
(* ties to even.  The values met here are zero or positive and normal.     *)
(* A float is the record [m, e] of value m * 2^e, m a whole number of      *)
(* exactly 53 bits; whole numbers that large are sequences of limbs in     *)
(* base 2^15, lowest limb first, without a zero at the high end.           *)

LIMB == 32768
LIMB_BITS == 15
MANT_BITS == 53

Pow2(k) == 2 ^ k

\* the largest member of a set of whole numbers that is not empty
SetMax(S) == CHOOSE i \in S : \A j \in S : j <= i

\* a whole number below LIMB^3 as limbs
BigOfNat(n) ==
    IF n = 0 THEN << >>
    ELSE IF n < LIMB THEN << n >>
    ELSE IF n \div LIMB < LIMB THEN << n % LIMB, n \div LIMB >>
    ELSE << n % LIMB, (n \div LIMB) % LIMB, n \div (LIMB * LIMB) >>

LimbAt(a, i) == IF 1 <= i /\ i <= Len(a) THEN a[i] ELSE 0

\* limbs below 2^31 as a whole number
BigToNat(a) == LimbAt(a, 1) + LIMB * (LimbAt(a, 2) + LIMB * LimbAt(a, 3))

\* the limbs up to the highest one that is not zero
TrimTo(a, used) ==
    IF used = { } THEN << >> ELSE SubSeq(a, 1, SetMax(used))

BigNorm(a) ==
    IF a = << >> THEN a ELSE TrimTo(a, { i \in 1..Len(a) : a[i] # 0 })

LongerLen(a, b) == IF Len(a) > Len(b) THEN Len(a) ELSE Len(b)

CmpAt(a, b, differ) ==
    IF differ = { } THEN 0
    ELSE IF LimbAt(a, SetMax(differ)) < LimbAt(b, SetMax(differ)) THEN -1
    ELSE 1

\* -1, 0 or 1 as a < b, a = b or a > b: the highest limb that differs
BigCmp(a, b) ==
    IF a = b THEN 0
    ELSE CmpAt(a, b,
               { i \in 1..LongerLen(a, b) : LimbAt(a, i) # LimbAt(b, i) })

\* a carry enters limb i: a limb below it overflows and all limbs between
\* pass the carry on
AddCarry(a, b, i) ==
    \E j \in 1..(i - 1) :
        /\ LimbAt(a, j) + LimbAt(b, j) >= LIMB
        /\ \A k \in (j + 1)..(i - 1) : LimbAt(a, k) + LimbAt(b, k) >= LIMB - 1

BigAdd(a, b) ==
    IF a = << >> THEN b
    ELSE IF b = << >> THEN a
    ELSE
    BigNorm([i \in 1..(LongerLen(a, b) + 1) |->
                (LimbAt(a, i) + LimbAt(b, i)
                     + (IF AddCarry(a, b, i) THEN 1 ELSE 0)) % LIMB])

\* limb i lends to the limbs below it
SubBorrow(a, b, i) ==
    \E j \in 1..(i - 1) :
        /\ a[j] < LimbAt(b, j)
        /\ \A k \in (j + 1)..(i - 1) : a[k] <= LimbAt(b, k)

\* a - b for a >= b
BigSub(a, b) ==
    IF a = b THEN << >>
    ELSE
    BigNorm([i \in 1..Len(a) |->
                (LIMB + a[i] - LimbAt(b, i)
                     - (IF SubBorrow(a, b, i) THEN 1 ELSE 0)) % LIMB])

\* a * k for 0 <= k < LIMB: the low halves of the limbs' products and the
\* high halves one limb up
BigMulSmall(a, k) ==
    IF a = << >> \/ k = 0 THEN << >>
    ELSE
    BigAdd([i \in 1..Len(a) |-> (a[i] * k) % LIMB],
           << 0 >> \o [i \in 1..Len(a) |-> (a[i] * k) \div LIMB])

RECURSIVE BigMulFrom(_, _, _)
BigMulFrom(a, b, j) ==
    IF j > Len(b) THEN << >>
    ELSE BigAdd([i \in 1..(j - 1) |-> 0] \o BigMulSmall(a, b[j]),
                BigMulFrom(a, b, j + 1))

BigMul(a, b) == IF a = << >> THEN << >> ELSE BigNorm(BigMulFrom(a, b, 1))

\* a * 2^(LIMB_BITS * limbs + bits), bits < LIMB_BITS
ShlBy(a, limbs, bits) ==
    IF a = << >> THEN a
    ELSE
    BigNorm([i \in 1..(Len(a) + limbs + 1) |->
                (LimbAt(a, i - limbs) % Pow2(LIMB_BITS - bits)) * Pow2(bits)
                    + LimbAt(a, i - limbs - 1) \div Pow2(LIMB_BITS - bits)])

\* a * 2^k
BigShl(a, k) == ShlBy(a, k \div LIMB_BITS, k % LIMB_BITS)

\* a \div 2^(LIMB_BITS * limbs + bits), bits < LIMB_BITS
ShrBy(a, limbs, bits) ==
    IF a = << >> THEN a
    ELSE
    BigNorm([i \in 1..Len(a) |->
                LimbAt(a, i + limbs) \div Pow2(bits)
                    + (LimbAt(a, i + limbs + 1) % Pow2(bits))
                          * Pow2(LIMB_BITS - bits)])

\* a \div 2^k
BigShr(a, k) == ShrBy(a, k \div LIMB_BITS, k % LIMB_BITS)

\* the number of bits of n < LIMB
BitLenNat(n) ==
    CHOOSE k \in 0..LIMB_BITS : (k = 0 \/ n >= Pow2(k - 1)) /\ n < Pow2(k)

\* the number of bits of a
BigBitLen(a) ==
    IF a = << >> THEN 0
    ELSE LIMB_BITS * (Len(a) - 1) + BitLenNat(a[Len(a)])

BigIsOdd(a) == a # << >> /\ a[1] % 2 = 1

\* the largest digit with digit * d <= r, which is the estimate or one or
\* two below it
DigitNear(r, d, estimate) ==
    IF BigCmp(BigMulSmall(d, estimate), r) <= 0 THEN estimate
    ELSE IF BigCmp(BigMulSmall(d, estimate - 1), r) <= 0 THEN estimate - 1
    ELSE estimate - 2

LesserOf(i, j) == IF i < j THEN i ELSE j

\* the largest digit with digit * d <= r, for r < d * LIMB and the highest
\* limb of d at least LIMB / 2: estimated from the two highest limbs of r
\* and the highest of d
BigDigit(r, d) ==
    DigitNear(r, d,
              LesserOf((LimbAt(r, Len(d) + 1) * LIMB + LimbAt(r, Len(d)))
                           \div d[Len(d)],
                       LIMB - 1))

\* one step of the long division: limb i - 1 is the next one, the digit
\* found is put before the quotient, and r2 less digit * d remains
BigDivStep(d, i, q, r2, digit) ==
    [i |-> i - 1, q |-> << digit >> \o q,
     r |-> BigSub(r2, BigMulSmall(d, digit))]

\* the remainder so far with the next limb of n below it
NextRemainder(limb, r) == BigNorm(<< limb >> \o r)

\* long division, one limb of n after the other from limb at.i down: the
\* quotient so far at.q and the remainder so far at.r
RECURSIVE BigDivFrom(_, _, _)
BigDivFrom(n, d, at) ==
    IF at.i = 0 THEN [q |-> BigNorm(at.q), r |-> at.r]
    ELSE BigDivFrom(n, d,
                    BigDivStep(d, at.i, at.q, NextRemainder(n[at.i], at.r),
                               BigDigit(NextRemainder(n[at.i], at.r), d)))

\* the quotient and the remainder of n by d, the highest limb of d at least
\* LIMB / 2: the highest limbs of n, one fewer than d has, are below d and
\* are the first remainder
DivScaled(n, d) ==
    IF Len(n) < Len(d) THEN [q |-> << >>, r |-> n]
    ELSE BigDivFrom(n, d,
                    [i |-> Len(n) - Len(d) + 1, q |-> << >>,
                     r |-> BigNorm(SubSeq(n, Len(n) - Len(d) + 2, Len(n)))])

\* n by d with both times 2^bits
DivShifted(n, d, bits) ==
    [q |-> DivScaled(BigShl(n, bits), BigShl(d, bits)).q,
     r |-> BigShr(DivScaled(BigShl(n, bits), BigShl(d, bits)).r, bits)]

\* the quotient and remainder of n by d, d > 0: both are scaled to bring
\* the highest limb of d to LIMB / 2 or more
BigDivMod(n, d) == DivShifted(n, d, LIMB_BITS - BitLenNat(d[Len(d)]))

ZERO_FLOAT == [m |-> << >>, e |-> 0]

\* the float of mantissa m, of 53 or 54 bits, and exponent e
RoundMantissa(m, e) ==
    IF BigBitLen(m) > MANT_BITS
    THEN [m |-> BigShr(m, 1), e |-> e + 1]
    ELSE [m |-> m, e |-> e]

\* the quotient rounded to nearest, ties to even: twice the remainder
\* compared with the divisor
RoundQuotient(q, twice, e) ==
    IF twice > 0 \/ (twice = 0 /\ BigIsOdd(q))
    THEN RoundMantissa(BigAdd(q, << 1 >>), e)
    ELSE RoundMantissa(q, e)

RoundDivided(qr, d1, e) ==
    RoundQuotient(qr.q, BigCmp(BigAdd(qr.r, qr.r), d1), e)

\* n * 2^s / d lies in [2^52, 2^53)
RoundShifted(n, d, e, s) ==
    IF s >= 0
    THEN RoundDivided(BigDivMod(BigShl(n, s), d), d, e - s)
    ELSE RoundDivided(BigDivMod(n, BigShl(d, -s)), BigShl(d, -s), e - s)

\* n * 2^s0 / d lies in [2^52, 2^54)
RoundFrom(n, d, e, s0) ==
    IF s0 >= 0
    THEN RoundShifted(n, d, e,
                      IF BigCmp(BigShl(n, s0), BigShl(d, MANT_BITS)) >= 0
                      THEN s0 - 1 ELSE s0)
    ELSE RoundShifted(n, d, e,
                      IF BigCmp(n, BigShl(d, MANT_BITS - s0)) >= 0
                      THEN s0 - 1 ELSE s0)

\* the float nearest to n / d * 2^e, ties to even, for whole n >= 0, d > 0
RoundToFloat(n, d, e) ==
    IF n = << >> THEN ZERO_FLOAT
    ELSE RoundFrom(n, d, e, MANT_BITS + BigBitLen(d) - BigBitLen(n))

\* float(n) for a whole number n >= 0
FloatOfInt(n) == RoundToFloat(BigOfNat(n), << 1 >>, 0)

\* the float a decimal literal with one decimal place denotes: tenths / 10
FloatOfTenths(tenths) == RoundToFloat(BigOfNat(tenths), << 10 >>, 0)

\* a * b
FloatMul(a, b) ==
    IF a.m = << >> \/ b.m = << >> THEN ZERO_FLOAT
    ELSE RoundToFloat(BigMul(a.m, b.m), << 1 >>, a.e + b.e)

\* a / b, b not zero
FloatDiv(a, b) ==
    IF a.m = << >> THEN ZERO_FLOAT ELSE RoundToFloat(a.m, b.m, a.e - b.e)

FloatSum(a, b, e) ==
    RoundToFloat(BigAdd(BigShl(a.m, a.e - e), BigShl(b.m, b.e - e)),
                 << 1 >>, e)

\* a + b
FloatAdd(a, b) ==
    IF a.m = << >> THEN b
    ELSE IF b.m = << >> THEN a
    ELSE FloatSum(a, b, IF a.e < b.e THEN a.e ELSE b.e)

\* a < b
FloatLess(a, b) ==
    IF b.m = << >> THEN FALSE
    ELSE IF a.m = << >> THEN TRUE
    ELSE a.e < b.e \/ (a.e = b.e /\ BigCmp(a.m, b.m) < 0)

\* int(a): the whole part, below 2^31
FloatToInt(a) ==
    IF a.m = << >> THEN 0
    ELSE IF a.e >= 0 THEN BigToNat(BigShl(a.m, a.e))
    ELSE IF -a.e >= MANT_BITS THEN 0
    ELSE BigToNat(BigShr(a.m, -a.e))

-----------------------------------------------------------------------------
(* Geometry of the dashboard engine.  A length written in the source as a  *)
(* literal of millimetres is kept here in tenths of a millimetre, so that  *)
(* 25.4 is 254 and 0.5 is 5, and FloatOfTenths gives the float Python      *)
(* reads the literal as.                                                   *)

\* LABEL_SIZES, in its order: (width, height) in tenths of a millimetre
LABEL_SIZES ==
    << << 508, 254 >>, << 762, 508 >>, << 1016, 508 >>, << 1016, 762 >>,
       << 1016, 1016 >>, << 1016, 1524 >>, << 1050, 1480 >>, << 1480, 2100 >> >>

DEFAULT_LABEL_SIZE == 6
DPI == 600
BLEED_MM == 50
TENTH_MM_PER_INCH == 254

FLOAT_25_4 == FloatOfTenths(TENTH_MM_PER_INCH)

\* mm_to_px(mm_val, dpi) = int(mm_val * dpi / 25.4) on the float mm_val
mm_to_px(mm_val, dpi) ==
    FloatToInt(FloatDiv(FloatMul(mm_val, FloatOfInt(dpi)), FLOAT_25_4))

\* the DPIs an instance is made with: the default and four others
DpiValues == { 72, 96, 150, 300, DPI }

\* the lengths create_label_png hands to mm_to_px as literals, in tenths
LiteralLengths == { 5, 10, 20, 30, 100 }

\* mm_to_px of those literals at those DPIs, computed once
LITERAL_PX ==
    [dpi \in DpiValues |->
        [tenths \in LiteralLengths |-> mm_to_px(FloatOfTenths(tenths), dpi)]]

\* mm_to_px(<literal>, dpi), for a DPI of DpiValues
literal_px(tenths, dpi) == LITERAL_PX[dpi][tenths]

\* max(floor, v)
at_least(floor, v) == IF v < floor THEN floor ELSE v

\* max(floor, int(points * scale * base_scale))
font_size(points, scale, base_scale, floor) ==
    at_least(floor,
             FloatToInt(FloatMul(FloatMul(FloatOfInt(points), scale),
                                 base_scale)))

\* min(a, b) and max(a, b) of Python on floats
FloatMin(a, b) == IF FloatLess(b, a) THEN b ELSE a
FloatMax(a, b) == IF FloatLess(a, b) THEN b ELSE a

\* scale = min(width / 101.6, height / 152.4), clamped to 0.4 .. 1.5
font_scale(label_width_mm, label_height_mm) ==
    FloatMax(FloatOfTenths(4),
             FloatMin(FloatMin(FloatDiv(label_width_mm, FloatOfTenths(1016)),
                               FloatDiv(label_height_mm, FloatOfTenths(1524))),
                      FloatOfTenths(15)))

\* _load_fonts on a host that has the DejaVu fonts and no Windows or macOS
\* font: the paths kept in self.font_regular and self.font_bold
FONT_REGULAR == "/usr/share/fonts/truetype/dejavu/DejaVuSans.ttf"
FONT_BOLD == "/usr/share/fonts/truetype/dejavu/DejaVuSans-Bold.ttf"

\* the sides of the first preset for a key that is not in LABEL_SIZES
label_dimensions_first_preset(label_size) ==
    IF label_size \in DOMAIN LABEL_SIZES THEN LABEL_SIZES[label_size]
    ELSE LABEL_SIZES[1]

\* lines 74-77: the sides of the preset, of the default one for a key that
\* is not in LABEL_SIZES
label_dimensions(label_size) ==
    IF label_size \in DOMAIN LABEL_SIZES THEN LABEL_SIZES[label_size]
    ELSE LABEL_SIZES[DEFAULT_LABEL_SIZE]

\* lines 79-100: the fields computed from the sides, scale and base_scale
generator_fields(label_size, dpi, w, h, total_w, total_h, scale, base_scale) ==
    [ label_size |-> label_size,
      dpi |-> dpi,
      label_width_mm |-> w,
      label_height_mm |-> h,
      total_width_mm |-> total_w,
      total_height_mm |-> total_h,
      label_width_px |-> mm_to_px(w, dpi),
      label_height_px |-> mm_to_px(h, dpi),
      total_width_px |-> mm_to_px(total_w, dpi),
      total_height_px |-> mm_to_px(total_h, dpi),
      bleed_px |-> mm_to_px(FloatOfTenths(BLEED_MM), dpi),
      FONT_SIZE_LARGE |-> font_size(18, scale, base_scale, 8),
      FONT_SIZE_HEADER |-> font_size(12, scale, base_scale, 6),
      FONT_SIZE_BODY |-> font_size(9, scale, base_scale, 5),
      FONT_SIZE_SMALL |-> font_size(7, scale, base_scale, 4),
      FONT_SIZE_DATA |-> font_size(10, scale, base_scale, 5),
      font_regular |-> FONT_REGULAR,
      font_bold |-> FONT_BOLD ]

generator_of_sides(label_size, dpi, w, h) ==
    generator_fields(label_size, dpi, w, h,
                     FloatAdd(w, FloatOfTenths(2 * BLEED_MM)),
                     FloatAdd(h, FloatOfTenths(2 * BLEED_MM)),
                     font_scale(w, h),
                     FloatDiv(FloatOfInt(dpi), FloatOfInt(72)))

\* DoDLabelGenerator.__init__(label_size, dpi): the instance's fields
new_generator(label_size, dpi) ==
    generator_of_sides(label_size, dpi,
                       FloatOfTenths(label_dimensions(label_size)[1]),
                       FloatOfTenths(label_dimensions(label_size)[2]))

NoGenerator ==
    generator_fields(0, 0, ZERO_FLOAT, ZERO_FLOAT, ZERO_FLOAT, ZERO_FLOAT,
                     ZERO_FLOAT, ZERO_FLOAT)

margin_px(g) == literal_px(30, g.dpi)
border_bottom(g) == g.bleed_px + g.label_height_px - margin_px(g)

-----------------------------------------------------------------------------
(* The PDF generator (dod_label_generator) and the CLI PNG generator       *)
(* (dod_label_generator_png)                                               *)

DAYS_PER_MONTH == 30

\* date_obj + timedelta(days=n); NoDate for OverflowError
AddTimedelta(dt, n) ==
    LET r == IF n >= 0 THEN AddDays(dt, n) ELSE SubDays(dt, -n) IN
    IF r.y \in 1..MAXYEAR THEN r ELSE NoDate

\* the expiry datetime of both calculate_dates: strptime takes the value
\* itself, so anything but a str is a TypeError
batch_expiry(manufacture_date, shelf_life_months) ==
    LET date_obj == IF manufacture_date.k = "str"
                    THEN StrpTime(manufacture_date.s) ELSE NoDate
    IN  IF date_obj = NoDate THEN NoDate
        ELSE IF NotNa(shelf_life_months) /\ ~CanInt(shelf_life_months) THEN NoDate
        ELSE AddTimedelta(date_obj,
                          (IF NotNa(shelf_life_months)
                           THEN IntOf(shelf_life_months)
                           ELSE DEFAULT_SHELF_LIFE) * DAYS_PER_MONTH)

\* dod_label_generator.DoDLabelGenerator.calculate_dates
pdf_calculate_dates(manufacture_date, shelf_life_months) ==
    LET e == batch_expiry(manufacture_date, shelf_life_months) IN
    IF e = NoDate THEN [text |-> NA_TEXT, date |-> NoDate]
    ELSE [text |-> StrfUseByLong(e), date |-> e]

\* dod_label_generator_png.DoDLabelGeneratorPNG.calculate_dates
png_calculate_dates(manufacture_date, shelf_life_months) ==
    LET e == batch_expiry(manufacture_date, shelf_life_months) IN
    IF e = NoDate THEN [text |-> NA_TEXT, date |-> NoDate]
    ELSE [text |-> StrfUseBy(e), date |-> e]


-----------------------------------------------------------------------------
(* DoDLabelGenerator.create_label_png(row) of the dashboard engine, one    *)
(* action per section of the function.                                     *)

Fields ==
    { "product_description", "nato_stock_no", "unit_of_issue",
      "hazardous_material_code", "batch_lot_no", "batch_lot_managed",
      "date_of_manufacture", "shelf_life_months", "nato_code",
      "jsd_reference", "specification", "capacity_net_weight",
      "test_report_no", "retest_date", "safety_movement_markings",
      "contractor_details" }

NoBarcodes ==
    [niin |-> NoData, datamatrix |-> NoData, batch |-> NoData, use_by |-> NoData]

NothingDrawn ==
    [ canvas |-> << 0, 0 >>, cut_line |-> << 0, 0, 0, 0 >>,
      unit_issue |-> NoData, hazard_box |-> FALSE, batch_managed |-> NoData,
      use_by_text |-> NoData, nato_box |-> FALSE, rows |-> 0,
      safety_markings |-> NoData, contractor |-> << >> ]

DEFAULT_DOM == Str(<< "0", "1", "/", "0", "1", "/", "2", "0", "2", "5" >>)
EMPTY == Str(<< >>)

\* lines 246-283: canvas, cut-line, content margins, dates
Begin ==
    /\ pc = "begin"
    /\ LET dates == calculate_dates(
                        Get(row, "date_of_manufacture", DEFAULT_DOM),
                        Get(row, "shelf_life_months", Num(DEFAULT_SHELF_LIFE)))
       IN  /\ use_by_date' = dates.text
           /\ expiry_date_obj' = dates.date
    /\ dom_formatted' =
           format_date_display(PyStr(Get(row, "date_of_manufacture", EMPTY)))
    /\ y_pos' = self.bleed_px + margin_px(self)
    /\ drawn' =
           [drawn EXCEPT
               !.canvas = << self.total_width_px, self.total_height_px >>,
               !.cut_line = << self.bleed_px, self.bleed_px,
                               self.bleed_px + self.label_width_px,
                               self.bleed_px + self.label_height_px >>]
    /\ pc' = "header"
    /\ UNCHANGED << self, row, header, nato_stock, niin, hazmat_code, barcodes,
                    batch_lot, table_data, callVars, appVars >>

\* lines 285-307: header texts, main border, top rule
Header ==
    /\ pc = "header"
    /\ header' = << safe_str(Get(row, "product_description", EMPTY), NA_TEXT),
                    safe_str(Get(row, "nato_stock_no", EMPTY), NA_TEXT) >>
    /\ y_pos' = y_pos + self.FONT_SIZE_LARGE + literal_px(20, self.dpi)
                      + self.FONT_SIZE_HEADER + literal_px(20, self.dpi)
                      + literal_px(10, self.dpi)
    /\ pc' = "niin_row"
    /\ UNCHANGED << self, row, use_by_date, expiry_date_obj, dom_formatted,
                    nato_stock, niin, hazmat_code, barcodes, batch_lot,
                    table_data, drawn, callVars, appVars >>

\* the NIIN without the placeholder of a blank NSN
niin_of_no_placeholder(stock) == Suffix(FilterDigits(stock), NIIN_LEN)

\* line 312: the NIIN drawn and encoded
niin_of(stock) ==
    IF stock # DASH THEN Suffix(FilterDigits(stock), NIIN_LEN)
    ELSE << "0", "0", "0", "0", "0", "0", "0", "0", "0" >>

\* the hazard box drawn for every record, the placeholder included
hazard_box_drawn_always(hazmat) == hazmat # << >>

\* line 339: if hazmat_code and hazmat_code != '-':
hazard_box_drawn(hazmat) == hazmat # << >> /\ hazmat # DASH

\* lines 309-393: NIIN barcode, unit of issue, hazard box, DataMatrix,
\* NIIN text, separator
NiinRow ==
    /\ pc = "niin_row"
    /\ LET stock == safe_str(Get(row, "nato_stock_no", EMPTY), DASH)
           hazmat == safe_str(Get(row, "hazardous_material_code", EMPTY), DASH)
       IN  /\ nato_stock' = stock
           /\ niin' = niin_of(stock)
           /\ hazmat_code' = hazmat
           /\ barcodes' =
                  [barcodes EXCEPT
                      !.niin = generate_code39(niin_of(stock)),
                      !.datamatrix = generate_gs1_datamatrix(
                                         Str(stock),
                                         Get(row, "batch_lot_no", EMPTY),
                                         expiry_date_obj)]
           /\ drawn' =
                  [drawn EXCEPT
                      !.unit_issue = safe_str(Get(row, "unit_of_issue", EMPTY),
                                              << "D", "R" >>),
                      !.hazard_box = hazard_box_drawn(hazmat)]
    /\ y_pos' = y_pos + literal_px(100, self.dpi) + literal_px(20, self.dpi)
                      + self.FONT_SIZE_DATA + literal_px(30, self.dpi)
                      + literal_px(20, self.dpi)
    /\ pc' = "barcode_row"
    /\ UNCHANGED << self, row, use_by_date, expiry_date_obj, dom_formatted,
                    header, batch_lot, table_data, callVars, appVars >>

USE_BY_DEFAULT == << "0", "1", "J", "A", "N", "9", "9" >>

\* lines 395-451: batch and use-by Code 128 barcodes, their captions,
\* separator
BarcodeRow ==
    /\ pc = "barcode_row"
    /\ LET batch == safe_str(Get(row, "batch_lot_no", EMPTY), << >>)
           use_by_barcode_text ==
               IF expiry_date_obj # NoDate
               THEN StrfUseByBarcode(expiry_date_obj)
               ELSE USE_BY_DEFAULT
           batch_managed_raw ==
               safe_str(Get(row, "batch_lot_managed", EMPTY), << "N" >>)
       IN  /\ batch_lot' = batch
           /\ barcodes' =
                  [barcodes EXCEPT
                      !.batch = generate_code128(batch),
                      !.use_by = generate_code128(use_by_barcode_text)]
           /\ drawn' =
                  [drawn EXCEPT
                      !.batch_managed =
                          IF Upper(batch_managed_raw)
                                 \in { << "Y" >>, << "Y", "E", "S" >> }
                          THEN << "Y" >> ELSE << "N" >>,
                      !.use_by_text = use_by_date]
    /\ y_pos' = y_pos + literal_px(100, self.dpi) + literal_px(10, self.dpi)
                      + self.FONT_SIZE_DATA + literal_px(20, self.dpi)
                      + literal_px(10, self.dpi)
    /\ pc' = "table"
    /\ UNCHANGED << self, row, use_by_date, expiry_date_obj, dom_formatted,
                    header, nato_stock, niin, hazmat_code, table_data,
                    callVars, appVars >>

\* lines 461-468: the re-test date shown
retest_display(manual_retest, use_by) ==
    IF Truthy(manual_retest)
          /\ manual_retest \notin { None, Str(DASH), Str(<< >>) }
    THEN format_date_display(PyStr(manual_retest))
    ELSE use_by

\* lines 470-479: table_data
table_rows(r, batch, dom, use_by) ==
    << << "NATO Code / JSD:",
          safe_str(Get(r, "nato_code", EMPTY), DASH) \o << "|" >>
              \o safe_str(Get(r, "jsd_reference", EMPTY), DASH) >>,
       << "Specification:", safe_str(Get(r, "specification", EMPTY), DASH) >>,
       << "Batch Lot No.:", IF batch # << >> THEN batch ELSE DASH >>,
       << "Date of Manufacture:", dom >>,
       << "Capacity/Net Weight:",
          safe_str(Get(r, "capacity_net_weight", EMPTY), DASH) >>,
       << "Re-Test Date:", retest_display(Get(r, "retest_date", None), use_by) >>,
       << "Test Report No.:", safe_str(Get(r, "test_report_no", EMPTY), DASH) >> >>

\* line 496: nato_code_val, jsd_ref_val = value.split('|') unpacks only a
\* list of two
unpacks(value) == Len(Split(value, "|")) = 2

\* lines 453-550: the information table; the first row is the NATO Code /
\* JSD row, whose unpacking raises ValueError before any later row is drawn
Table ==
    /\ pc = "table"
    /\ LET rows == table_rows(row, batch_lot, dom_formatted, use_by_date) IN
       /\ table_data' = rows
       /\ IF unpacks(rows[1][2])
          THEN /\ drawn' = [drawn EXCEPT
                               !.nato_box = (Split(rows[1][2], "|")[1] # DASH),
                               !.rows = Len(rows)]
               /\ y_pos' = y_pos
                             + Len(rows) * (self.FONT_SIZE_DATA
                                              + literal_px(20, self.dpi))
                             + literal_px(10, self.dpi)
               /\ pc' = "safety"
          ELSE /\ pc' = "raised"
               /\ UNCHANGED << drawn, y_pos >>
    /\ UNCHANGED << self, row, use_by_date, expiry_date_obj, dom_formatted,
                    header, nato_stock, niin, hazmat_code, barcodes, batch_lot,
                    callVars, appVars >>

\* lines 552-569: the safety and movement markings block
Safety ==
    /\ pc = "safety"
    /\ drawn' = [drawn EXCEPT
                    !.safety_markings =
                        safe_str(Get(row, "safety_movement_markings", EMPTY),
                                 DASH)]
    /\ y_pos' = y_pos + self.FONT_SIZE_SMALL + literal_px(20, self.dpi)
                      + self.FONT_SIZE_DATA + literal_px(30, self.dpi)
                      + literal_px(10, self.dpi)
    /\ pc' = "contractor"
    /\ UNCHANGED << self, row, use_by_date, expiry_date_obj, dom_formatted,
                    header, nato_stock, niin, hazmat_code, barcodes, batch_lot,
                    table_data, callVars, appVars >>

\* the contractor block drawn whenever there is text, whatever space is left
contractor_drawn_unfitted(g, y, contractor_details) ==
    /\ contractor_details # << >>
    /\ contractor_details # DASH

\* lines 573-579: if contractor_details and contractor_details != '-': ...
\* if y_pos + box_height < border_bottom - mm_to_px(2, self.dpi):
contractor_drawn(g, y, contractor_details) ==
    /\ contractor_details # << >>
    /\ contractor_details # DASH
    /\ y + Len(Split(contractor_details, "|"))
               * (g.FONT_SIZE_SMALL + literal_px(5, g.dpi))
         + literal_px(20, g.dpi)
           < border_bottom(g) - literal_px(20, g.dpi)

\* lines 571-586: the contractor block, drawn when it fits; return img
Contractor ==
    /\ pc = "contractor"
    /\ LET contractor_details ==
               safe_str(Get(row, "contractor_details", EMPTY), << >>)
           lines == Split(contractor_details, "|")
       IN  drawn' =
               [drawn EXCEPT
                   !.contractor =
                       IF contractor_drawn(self, y_pos, contractor_details)
                       THEN [i \in 1..Len(lines) |-> Strip(lines[i])]
                       ELSE << >>]
    /\ pc' = "done"
    /\ UNCHANGED << self, row, y_pos, use_by_date, expiry_date_obj,
                    dom_formatted, header, nato_stock, niin, hazmat_code,
                    barcodes, batch_lot, table_data, callVars, appVars >>

-----------------------------------------------------------------------------
(* The strings of the sample records and of the claims' cases *)

BATCH_LONG ==
    << "A", "B", "C", "D", "E", "F", "G", "H", "I", "J", "K", "L", "M", "N",
       "O", "P", "Q", "R", "S", "T", "U", "V" >>
BATCH_OM11 == << "F", "M", "2", "5", "1", "1", "1", "5", "A" >>
BATCH_PADDED == << " ", "B", "1", " " >>
CONTRACTOR_3_LINES ==
    << "A", "C", "M", "E", " ", "|", " ", "1", " ", "H", "i", "g", "h", " ",
       "S", "t", " ", "|", " ", "S", "y", "d", "n", "e", "y" >>
D_01_06_2026 == << "0", "1", "/", "0", "6", "/", "2", "0", "2", "6" >>
D_12_11_2024 == << "1", "2", "/", "1", "1", "/", "2", "0", "2", "4" >>
D_15_11_2025 == << "1", "5", "/", "1", "1", "/", "2", "0", "2", "5" >>
D_1_2_2025 == << "1", "/", "2", "/", "2", "0", "2", "5" >>
D_31_01_2025 == << "3", "1", "/", "0", "1", "/", "2", "0", "2", "5" >>
D_31_02_2025 == << "3", "1", "/", "0", "2", "/", "2", "0", "2", "5" >>
D_31_12_2025 == << "3", "1", "/", "1", "2", "/", "2", "0", "2", "5" >>
D_ISO == << "2", "0", "2", "5", "-", "1", "1", "-", "1", "5" >>
NSN_DCI4A ==
    << "6", "8", "5", "0", "-", "9", "9", "-", "2", "2", "4", "-", "5", "2",
       "5", "2" >>
NSN_LONG ==
    << "1", "2", "3", "4", "5", "-", "6", "7", "-", "8", "9", "0", "-", "1",
       "2", "3", "4", "5" >>
NSN_OM11 ==
    << "9", "1", "5", "0", "-", "6", "6", "-", "0", "3", "5", "-", "7", "8",
       "7", "9" >>
NSN_SHORT == << "1", "2", "-", "3", "4" >>
S_12_MAY_26 == << "1", "2", " ", "M", "A", "Y", " ", "2", "6" >>
S_15_NOV_28 == << "1", "5", " ", "N", "O", "V", " ", "2", "8" >>
S_18 == << "1", "8" >>
S_205L == << "2", "0", "5", "L" >>
S_24_0 == << "2", "4", ".", "0" >>
S_28_FEB_25 == << "2", "8", " ", "F", "E", "B", " ", "2", "5" >>
S_3 == << "3" >>
S_31_DEC_27 == << "3", "1", " ", "D", "E", "C", " ", "2", "7" >>
S_ABC == << "A", "B", "C" >>
S_ACME == << "A", "C", "M", "E" >>
S_A_PIPE_B == << "A", "|", "B" >>
S_Blank == << "B", "l", "a", "n", "k" >>
S_DR == << "D", "R" >>
S_H576 == << "H", "-", "5", "7", "6" >>
S_J_PIPE_1 == << "J", "|", "1" >>
S_NA == << "N", "A" >>
S_NONE == << "N", "O", "N", "E" >>
S_NaN == << "N", "a", "N" >>
S_None == << "N", "o", "n", "e" >>
S_OM11 == << "O", "M", "-", "1", "1" >>
S_Y == << "Y" >>
S_abc == << "a", "b", "c" >>
S_blank == << "b", "l", "a", "n", "k" >>
S_dash_blank == << "-", "/", "b", "l", "a", "n", "k" >>
S_n_a == << "n", "/", "a" >>
S_n_a_PADDED == << " ", "n", "/", "a", " " >>
S_na == << "n", "a" >>
S_nan == << "n", "a", "n" >>
S_nan_PADDED == << " ", "n", "a", "n" >>
S_none == << "n", "o", "n", "e" >>
S_not_applicable_or_blank ==
    << "n", "o", "t", " ", "a", "p", "p", "l", "i", "c", "a", "b", "l", "e",
       " ", "o", "r", " ", "b", "l", "a", "n", "k" >>

-----------------------------------------------------------------------------
(* The records rendered.  SampleRow is the sample of the specification     *)
(* (Fuchs OM-11); each family varies some of its fields.                   *)

SampleRow ==
    [ f \in Fields |->
        CASE f = "product_description" -> Str(S_OM11)
          [] f = "nato_stock_no" -> Str(NSN_OM11)
          [] f = "unit_of_issue" -> Str(S_DR)
          [] f = "batch_lot_no" -> Str(BATCH_OM11)
          [] f = "batch_lot_managed" -> Str(S_Y)
          [] f = "date_of_manufacture" -> Str(D_15_11_2025)
          [] f = "shelf_life_months" -> Num(36)
          [] f = "nato_code" -> Str(S_H576)
          [] f = "jsd_reference" -> Str(S_OM11)
          [] f = "capacity_net_weight" -> Str(S_205L)
          [] OTHER -> Absent ]

DomValues ==
    { Absent, None, NaN, Str(D_15_11_2025), Str(D_31_01_2025),
      Str(D_12_11_2024), Str(D_31_12_2025), Str(D_ISO), Str(D_31_02_2025),
      Str(D_1_2_2025), EMPTY }

ShelfValues ==
    { Absent, None, NaN, Num(36), Num(1), Num(18), Num(24), Str(S_18), Str(S_abc),
      Str(S_24_0), EMPTY }

NsnValues ==
    { Absent, None, Str(NSN_OM11), Str(NSN_DCI4A), Str(NSN_SHORT), Str(S_n_a),
      Str(S_ABC), Str(DASH), Str(NSN_LONG) }

BatchValues ==
    { Absent, NaN, Str(BATCH_OM11), Str(BATCH_PADDED), EMPTY, Str(NA_TEXT),
      Str(BATCH_LONG) }

NatoCodeValues == { Absent, Str(S_H576), Str(S_A_PIPE_B), Str(DASH) }
JsdValues == { Absent, Str(S_OM11), Str(S_J_PIPE_1) }
RetestValues ==
    { Absent, None, NaN, Str(D_01_06_2026), Str(S_n_a), Str(S_none), Str(DASH),
      EMPTY }
HazmatValues == { Absent, Str(DASH), Str(S_3) }
ContractorValues == { Absent, Str(S_ACME), Str(CONTRACTOR_3_LINES) }

\* the keys of LABEL_SIZES and one key that is not in it
LabelSizeKeys == DOMAIN LABEL_SIZES \cup { 0 }

RowsDates ==
    { [SampleRow EXCEPT !["date_of_manufacture"] = dom,
                        !["shelf_life_months"] = shelf] :
        dom \in DomValues, shelf \in ShelfValues }

RowsCodes ==
    { [SampleRow EXCEPT !["nato_stock_no"] = nsn,
                        !["batch_lot_no"] = batch,
                        !["date_of_manufacture"] = dom] :
        nsn \in NsnValues, batch \in BatchValues,
        dom \in { Absent, NaN, Str(D_15_11_2025) } }

RowsTable ==
    { [SampleRow EXCEPT !["nato_code"] = nato,
                        !["jsd_reference"] = jsd,
                        !["retest_date"] = retest,
                        !["hazardous_material_code"] = hazmat,
                        !["contractor_details"] = contractor] :
        nato \in NatoCodeValues, jsd \in JsdValues, retest \in RetestValues,
        hazmat \in HazmatValues, contractor \in ContractorValues }

\* records with every optional field missing
RowsSparse ==
    { [[f \in Fields |-> Absent] EXCEPT !["product_description"] = d] :
        d \in { Str(S_OM11), Str(S_ACME) } }

\* a file: absent, holding a whole JSON catalog, or holding part of one
NoFile == [kind |-> "absent", data |-> << >>]
Partial == [kind |-> "partial", data |-> << >>]
File(products) == [kind |-> "json", data |-> products]

\* save_products_json is not running and nobody is on the product manager
NoSave ==
    [ pc |-> "idle", products_file |-> NoFile, backup_file |-> NoFile,
      tmp_file |-> NoFile, same_fs |-> TRUE, products_db |-> << >>,
      previous |-> NoFile ]

NoManager == [pc |-> "closed", products_db |-> << >>, message |-> "none"]

\* no generate_all_labels is running
NoJob ==
    [ generator |-> "none", pc |-> "idle",
      data_file |-> [loadable |-> FALSE, columns |-> { }, rows |-> << >>],
      idx |-> 0, attempted |-> << >>, written |-> { }, printed |-> << >>,
      result |-> "none" ]

\* the label form as streamlit first shows it (lines 988-1022): empty
\* batch, test report "-", override unchecked; nothing generated, no file
NoLabel == [f \in Fields |-> Absent]

\* no create_label_png of the CLI PNG generator is running
NoPng ==
    [ pc |-> 0, row |-> NoLabel, bound |-> { }, raised |-> "none",
      name |-> "none", saved |-> FALSE ]
NoFileName == [product |-> << >>, batch |-> << >>, size |-> 0]

NoPage ==
    [ batch_lot_no |-> << >>, test_report_no |-> << "-" >>,
      override_retest |-> FALSE, compliance_warning |-> FALSE,
      can_generate |-> FALSE, current_label |-> NoLabel,
      current_label_data |-> NoLabel, file_name |-> NoFileName ]

IdleApp ==
    /\ save = NoSave
    /\ mgr = NoManager
    /\ job = NoJob
    /\ labels = << >>
    /\ page = NoPage
    /\ png = NoPng

NoCall == [fn |-> "none", args |-> << >>, returned |-> FALSE]

IdleCall ==
    /\ call = NoCall
    /\ ret = << >>

Locals0 ==
    /\ y_pos = 0
    /\ use_by_date = << >>
    /\ expiry_date_obj = NoDate
    /\ dom_formatted = << >>
    /\ header = << >>
    /\ nato_stock = << >>
    /\ niin = << >>
    /\ hazmat_code = << >>
    /\ barcodes = NoBarcodes
    /\ batch_lot = << >>
    /\ table_data = << >>
    /\ drawn = NothingDrawn

\* generator = DoDLabelGenerator(label_size=label_size);
\* generator.create_label_png(row_data) is entered
Init ==
    /\ \/ /\ self = new_generator(DEFAULT_LABEL_SIZE, DPI)
          /\ row \in RowsDates \cup RowsCodes
       \/ /\ self \in { new_generator(k, DPI) : k \in LabelSizeKeys }
          /\ row \in RowsTable \cup RowsSparse
    /\ pc = "begin"
    /\ Locals0
    /\ IdleCall
    /\ IdleApp

Next ==
    \/ Begin
    \/ Header
    \/ NiinRow
    \/ BarcodeRow
    \/ Table
    \/ Safety
    \/ Contractor

Spec == Init /\ [][Next]_vars

-----------------------------------------------------------------------------
(* One instance renders several records, one call after the other: each    *)
(* call of create_label_png starts with its own locals, and what it        *)
(* returned is kept by the caller.                                         *)

MaxRenders == 3

\* the records rendered on the shared instance: the sample record, one with
\* optional blocks, one that raises and one with every optional field missing
ReuseRows ==
    { SampleRow,
      [SampleRow EXCEPT !["hazardous_material_code"] = Str(S_3),
                        !["contractor_details"] = Str(CONTRACTOR_3_LINES),
                        !["retest_date"] = Str(D_01_06_2026)],
      [SampleRow EXCEPT !["nato_code"] = Str(S_A_PIPE_B)],
      [[f \in Fields |-> Absent] EXCEPT !["product_description"] = Str(S_ACME)] }

\* what one call of create_label_png left: the record, the section reached,
\* the cursor and what was drawn
label_of_call ==
    [ row |-> row, pc |-> pc, y_pos |-> y_pos, header |-> header,
      niin |-> niin, barcodes |-> barcodes, table_data |-> table_data,
      drawn |-> drawn ]

\* create_label_png(r) is entered on the instance that rendered before, and
\* the instance's geometry is set anew from the default size
enter_create_label_png_resized(r) ==
    /\ self' = new_generator(DEFAULT_LABEL_SIZE, self.dpi)
    /\ row' = r
    /\ pc' = "begin"
    /\ y_pos' = 0
    /\ use_by_date' = << >>
    /\ expiry_date_obj' = NoDate
    /\ dom_formatted' = << >>
    /\ header' = << >>
    /\ nato_stock' = << >>
    /\ niin' = << >>
    /\ hazmat_code' = << >>
    /\ barcodes' = NoBarcodes
    /\ batch_lot' = << >>
    /\ table_data' = << >>
    /\ drawn' = NothingDrawn

\* create_label_png(r) is entered on the instance that rendered before: a
\* new image and new locals, the instance as it is
enter_create_label_png(r) ==
    /\ self' = self
    /\ row' = r
    /\ pc' = "begin"
    /\ y_pos' = 0
    /\ use_by_date' = << >>
    /\ expiry_date_obj' = NoDate
    /\ dom_formatted' = << >>
    /\ header' = << >>
    /\ nato_stock' = << >>
    /\ niin' = << >>
    /\ hazmat_code' = << >>
    /\ barcodes' = NoBarcodes
    /\ batch_lot' = << >>
    /\ table_data' = << >>
    /\ drawn' = NothingDrawn

InitReuse ==
    /\ self \in { new_generator(k, DPI) : k \in LabelSizeKeys }
    /\ row \in ReuseRows
    /\ pc = "begin"
    /\ Locals0
    /\ IdleCall
    /\ IdleApp

\* the call returned or raised; the caller keeps what it gave and calls
\* create_label_png again with a record
RenderAgain ==
    /\ pc \in { "done", "raised" }
    /\ Len(labels) < MaxRenders - 1
    /\ labels' = Append(labels, label_of_call)
    /\ \E r \in ReuseRows : enter_create_label_png(r)
    /\ UNCHANGED << callVars, save, mgr, job, page, png >>

NextReuse ==
    \/ Next
    \/ RenderAgain

SpecReuse == InitReuse /\ [][NextReuse]_vars

-----------------------------------------------------------------------------
(* create_label_png on instances made with each size key at each DPI *)

InitGeometry ==
    /\ self \in { new_generator(k, dpi) : k \in LabelSizeKeys, dpi \in DpiValues }
    /\ row \in RowsSparse \cup { SampleRow }
    /\ pc = "begin"
    /\ Locals0
    /\ IdleCall
    /\ IdleApp

SpecGeometry == InitGeometry /\ [][Next]_vars

-----------------------------------------------------------------------------
(* Direct calls of the engine's functions, one call per behaviour: Init    *)
(* draws the arguments, the action returns the function's value.           *)

IdleRender ==
    /\ self = NoGenerator
    /\ row = [f \in Fields |-> Absent]
    /\ pc = "idle"
    /\ Locals0

Calling(fn, args) == [fn |-> fn, args |-> args, returned |-> FALSE]

Returned(fn) == call.fn = fn /\ call.returned

\* the strings of at most n characters over an alphabet
StringsUpTo(alphabet, n) == UNION { [1..k -> alphabet] : k \in 0..n }

MaxStrLen == 3

SafeStrAlphabet == { "n", "a", "N", "/", "-", " " }

SafeStrTokens ==
    { S_n_a, NA_TEXT, S_n_a_PADDED, S_none, S_None, S_NONE, S_blank, S_Blank,
      S_na, S_NA, S_nan, S_NaN, S_nan_PADDED, S_not_applicable_or_blank,
      S_dash_blank, BATCH_OM11 }

SafeStrValues ==
    { None, NaN, Num(0), Num(36) }
        \cup { Str(t) : t \in StringsUpTo(SafeStrAlphabet, MaxStrLen) }
        \cup { Str(t) : t \in SafeStrTokens }

SafeStrDefaults == { DASH, NA_TEXT, << >> }

InitSafeStr ==
    /\ IdleRender
    /\ IdleApp
    /\ call \in { Calling("safe_str", << v, d >>) :
                      v \in SafeStrValues, d \in SafeStrDefaults }
    /\ ret = << >>

CallSafeStr ==
    /\ call.fn = "safe_str" /\ ~call.returned
    /\ ret' = safe_str(call.args[1], call.args[2])
    /\ call' = [call EXCEPT !.returned = TRUE]
    /\ UNCHANGED << renderVars, appVars >>

SpecSafeStr == InitSafeStr /\ [][CallSafeStr]_vars

FirstYear == 2024
LastYear == 2025
MaxShelfLife == 37

SampleDays == { 1, 12, 15, 28, 29, 30, 31 }

SampleDates ==
    { dt \in [y : FirstYear..LastYear, m : 1..12, d : SampleDays] : ValidDate(dt) }

DateCalls ==
    { "app.calculate_dates", "pdf.calculate_dates", "png.calculate_dates" }

InitDates ==
    /\ IdleRender
    /\ IdleApp
    /\ call \in { Calling(fn, << Str(StrfDMY(dt)), Num(n) >>) :
                      fn \in DateCalls, dt \in SampleDates, n \in 0..MaxShelfLife }
    /\ ret = << >>

CallAppCalculateDates ==
    /\ call.fn = "app.calculate_dates" /\ ~call.returned
    /\ ret' = calculate_dates(call.args[1], call.args[2])
    /\ call' = [call EXCEPT !.returned = TRUE]
    /\ UNCHANGED << renderVars, appVars >>

CallPdfCalculateDates ==
    /\ call.fn = "pdf.calculate_dates" /\ ~call.returned
    /\ ret' = pdf_calculate_dates(call.args[1], call.args[2])
    /\ call' = [call EXCEPT !.returned = TRUE]
    /\ UNCHANGED << renderVars, appVars >>

CallPngCalculateDates ==
    /\ call.fn = "png.calculate_dates" /\ ~call.returned
    /\ ret' = png_calculate_dates(call.args[1], call.args[2])
    /\ call' = [call EXCEPT !.returned = TRUE]
    /\ UNCHANGED << renderVars, appVars >>

NextDates ==
    \/ CallAppCalculateDates
    \/ CallPdfCalculateDates
    \/ CallPngCalculateDates

SpecDates == InitDates /\ [][NextDates]_vars

MaxNsnDigits == 15
MaxBatchLen == 22

\* n digits, the i-th being (a + i) mod 10
DigitRun(a, n) == [i \in 1..n |-> Digits[((a + i) % 10) + 1]]

\* digits written as an NSN is, nnnn-nn-nnn-nnnn
RECURSIVE Dashed(_, _)
Dashed(chars, i) ==
    IF i > Len(chars) THEN << >>
    ELSE (IF i \in { 5, 7, 10 } THEN << "-" >> ELSE << >>)
             \o << chars[i] >> \o Dashed(chars, i + 1)

LetterRun(n) == [i \in 1..n |-> Uppers[((i - 1) % 26) + 1]]

GS1Nsns ==
    { Str(DigitRun(a, n)) : a \in { 0, 3 }, n \in 0..MaxNsnDigits }
        \cup { Str(Dashed(DigitRun(a, n), 1)) : a \in { 0, 3 }, n \in 0..MaxNsnDigits }

GS1Batches ==
    { None, NaN, Num(0), Num(12) } \cup { Str(LetterRun(n)) : n \in 0..MaxBatchLen }

GS1Expiries ==
    { NoDate, [y |-> 2028, m |-> 11, d |-> 15], [y |-> 2026, m |-> 5, d |-> 12],
      [y |-> 2100, m |-> 1, d |-> 1], [y |-> 1999, m |-> 1, d |-> 1] }

InitGS1 ==
    /\ IdleRender
    /\ IdleApp
    /\ call \in { Calling("generate_gs1_datamatrix", << n, b, e >>) :
                      n \in GS1Nsns, b \in GS1Batches, e \in GS1Expiries }
    /\ ret = << >>

CallGS1 ==
    /\ call.fn = "generate_gs1_datamatrix" /\ ~call.returned
    /\ ret' = generate_gs1_datamatrix(call.args[1], call.args[2], call.args[3])
    /\ call' = [call EXCEPT !.returned = TRUE]
    /\ UNCHANGED << renderVars, appVars >>

SpecGS1 == InitGS1 /\ [][CallGS1]_vars

-----------------------------------------------------------------------------
(* mm_to_px called directly: two lengths at one DPI *)

\* lengths in tenths of a millimetre: the literals of create_label_png, the
\* sides of the presets and the sides with the bleed
MmValues ==
    { 0, 5, 10, 20, 30, 100, 254, 508, 762, 1016, 1050, 1116, 1480, 1524,
      2100 }

InitMmToPx ==
    /\ IdleRender
    /\ IdleApp
    /\ call \in { Calling("mm_to_px", << x, y, dpi >>) :
                      x \in MmValues, y \in MmValues, dpi \in DpiValues }
    /\ ret = << >>

\* mm_to_px(x, dpi) and mm_to_px(y, dpi)
CallMmToPx ==
    /\ call.fn = "mm_to_px" /\ ~call.returned
    /\ ret' = << mm_to_px(FloatOfTenths(call.args[1]), call.args[3]),
                 mm_to_px(FloatOfTenths(call.args[2]), call.args[3]) >>
    /\ call' = [call EXCEPT !.returned = TRUE]
    /\ UNCHANGED << renderVars, appVars >>

SpecMmToPx == InitMmToPx /\ [][CallMmToPx]_vars

-----------------------------------------------------------------------------
(* The catalog file: save_products_json(products_db, products_file).       *)
(* shutil.copy2 opens its destination for writing, which empties it, and   *)
(* then writes it piece by piece: between the two steps the destination    *)
(* holds part of the content.  shutil.move renames when the temporary      *)
(* directory and the catalog are on one filesystem, and copies otherwise.  *)

SaveRunning == save.pc \notin { "idle", "done", "raised", "killed" }

\* lines 836-838: backup_file = ...; if products_file.exists(): copy2 starts
SaveBackup ==
    /\ save.pc = "backup"
    /\ save' = IF save.products_file.kind # "absent"
               THEN [save EXCEPT !.backup_file = Partial, !.pc = "backup_copy"]
               ELSE [save EXCEPT !.pc = "dump"]
    /\ UNCHANGED << renderVars, callVars, mgr, job, labels, page, png >>

\* line 838: copy2 finishes
SaveBackupDone ==
    /\ save.pc = "backup_copy"
    /\ save' = [save EXCEPT !.backup_file = save.products_file, !.pc = "dump"]
    /\ UNCHANGED << renderVars, callVars, mgr, job, labels, page, png >>

\* line 838: copy2 raises; the call is above the try, the error leaves
\* save_products_json
SaveBackupFails ==
    /\ save.pc = "backup_copy"
    /\ save' = [save EXCEPT !.pc = "raised"]
    /\ UNCHANGED << renderVars, callVars, mgr, job, labels, page, png >>

\* line 842: NamedTemporaryFile(mode='w', delete=False) creates the file
SaveDump ==
    /\ save.pc = "dump"
    /\ save' = [save EXCEPT !.tmp_file = Partial, !.pc = "dumping"]
    /\ UNCHANGED << renderVars, callVars, mgr, job, labels, page, png >>

\* lines 843-844: json.dump finishes and the file is closed
SaveDumpDone ==
    /\ save.pc = "dumping"
    /\ save' = [save EXCEPT !.tmp_file = File(save.products_db), !.pc = "move"]
    /\ UNCHANGED << renderVars, callVars, mgr, job, labels, page, png >>

\* lines 842-844: creating the file or writing it raises
SaveDumpFails ==
    /\ save.pc \in { "dump", "dumping" }
    /\ save' = [save EXCEPT !.pc = "restore"]
    /\ UNCHANGED << renderVars, callVars, mgr, job, labels, page, png >>

\* line 847: shutil.move on one filesystem is os.rename
SaveMoveRename ==
    /\ save.pc = "move"
    /\ save.same_fs
    /\ save' = [save EXCEPT !.products_file = save.tmp_file,
                            !.tmp_file = NoFile, !.pc = "unlink"]
    /\ UNCHANGED << renderVars, callVars, mgr, job, labels, page, png >>

\* line 847: shutil.move across filesystems starts copy2
SaveMoveCopy ==
    /\ save.pc = "move"
    /\ ~save.same_fs
    /\ save' = [save EXCEPT !.products_file = Partial, !.pc = "move_copy"]
    /\ UNCHANGED << renderVars, callVars, mgr, job, labels, page, png >>

\* line 847: the copy finishes and shutil.move unlinks the temporary file
SaveMoveCopyDone ==
    /\ save.pc = "move_copy"
    /\ save' = [save EXCEPT !.products_file = save.tmp_file,
                            !.tmp_file = NoFile, !.pc = "unlink"]
    /\ UNCHANGED << renderVars, callVars, mgr, job, labels, page, png >>

\* line 847: shutil.move raises
SaveMoveFails ==
    /\ save.pc \in { "move", "move_copy" }
    /\ save' = [save EXCEPT !.pc = "restore"]
    /\ UNCHANGED << renderVars, callVars, mgr, job, labels, page, png >>

\* lines 850-851: the backup is removed; return
SaveUnlink ==
    /\ save.pc = "unlink"
    /\ save' = [save EXCEPT !.backup_file = NoFile, !.pc = "done"]
    /\ UNCHANGED << renderVars, callVars, mgr, job, labels, page, png >>

\* line 851: backup_file.unlink() raises
SaveUnlinkFails ==
    /\ save.pc = "unlink"
    /\ save.backup_file.kind # "absent"
    /\ save' = [save EXCEPT !.pc = "restore"]
    /\ UNCHANGED << renderVars, callVars, mgr, job, labels, page, png >>

\* lines 853-857: except Exception: copy2(backup_file, products_file)
\* starts when there is a backup; raise e
SaveRestore ==
    /\ save.pc = "restore"
    /\ save' = IF save.backup_file.kind # "absent"
               THEN [save EXCEPT !.products_file = Partial,
                                 !.pc = "restore_copy"]
               ELSE [save EXCEPT !.pc = "raised"]
    /\ UNCHANGED << renderVars, callVars, mgr, job, labels, page, png >>

\* line 856: the copy finishes; line 857: raise e
SaveRestoreDone ==
    /\ save.pc = "restore_copy"
    /\ save' = [save EXCEPT !.products_file = save.backup_file,
                            !.pc = "raised"]
    /\ UNCHANGED << renderVars, callVars, mgr, job, labels, page, png >>

\* line 856: the copy raises inside the handler
SaveRestoreFails ==
    /\ save.pc = "restore_copy"
    /\ save' = [save EXCEPT !.pc = "raised"]
    /\ UNCHANGED << renderVars, callVars, mgr, job, labels, page, png >>

\* the process is stopped (KeyboardInterrupt, kill, power): no line of
\* save_products_json runs any more
SaveInterrupted ==
    /\ SaveRunning
    /\ save' = [save EXCEPT !.pc = "killed"]
    /\ mgr' = [mgr EXCEPT !.pc = "killed"]
    /\ UNCHANGED << renderVars, callVars, job, labels, page, png >>

save_products_json ==
    \/ SaveBackup
    \/ SaveBackupDone
    \/ SaveBackupFails
    \/ SaveDump
    \/ SaveDumpDone
    \/ SaveDumpFails
    \/ SaveMoveRename
    \/ SaveMoveCopy
    \/ SaveMoveCopyDone
    \/ SaveMoveFails
    \/ SaveUnlink
    \/ SaveUnlinkFails
    \/ SaveRestore
    \/ SaveRestoreDone
    \/ SaveRestoreFails
    \/ SaveInterrupted

-----------------------------------------------------------------------------
(* The product manager of the dashboard: main() loads products.json on     *)
(* every run of the script and show_product_manager handles one Add New,   *)
(* Edit Existing or Delete, which ends in save_products_json.              *)

ID_A == << "A" >>
ID_B == << "B" >>
ID_A_PADDED == << " ", "A" >>
NAME_X == << "X" >>
NAME_Y == << "Y" >>

MaxProducts == 3

ProductIds == { ID_A, ID_B, ID_A_PADDED, << >> }
ProductNames == { NAME_X, NAME_Y }
NsnInputs == { NSN_OM11, S_ABC }

\* lines 747-761: new_product, the fields the form passes through strip()
new_product(product_id, product_name, nsn) ==
    [id |-> Strip(product_id), product_name |-> Strip(product_name),
     nsn |-> Strip(nsn)]

\* line 742: all([product_id, product_name, nsn, ...]); the other required
\* fields keep their filled defaults
required_filled(product_id, product_name, nsn) ==
    product_id # << >> /\ product_name # << >> /\ nsn # << >>

\* line 764: len(nsn.replace('-', '')) == 13 and every character a digit
\* or '-'
nsn_valid(nsn) ==
    /\ Len(SelectSeq(nsn, LAMBDA c : c # "-")) = NSN_LEN
    /\ \A i \in 1..Len(nsn) : IsDigit(nsn[i]) \/ nsn[i] = "-"

\* line 771: any(p['id'] == product_id for p in products_db)
id_exists(products_db, product_id) ==
    \E i \in 1..Len(products_db) : products_db[i].id = product_id

\* lines 780-783: the first product with the id is replaced
replace_first(products_db, product_id, product) ==
    IF ~id_exists(products_db, product_id) THEN products_db
    ELSE LET i == CHOOSE k \in 1..Len(products_db) :
                      /\ products_db[k].id = product_id
                      /\ \A j \in 1..(k - 1) : products_db[j].id # product_id
         IN  [products_db EXCEPT ![i] = product]

\* line 817: [p for p in products_db if p['id'] != product_to_delete]
without(products_db, product_id) ==
    SelectSeq(products_db, LAMBDA p : p.id # product_id)

\* save_products_json(products_db, products_file) is entered
enter_save(products_db) ==
    [save EXCEPT !.pc = "backup", !.products_db = products_db,
                 !.previous = save.products_file, !.tmp_file = NoFile]

InitialCatalogs ==
    { << new_product(ID_A, NAME_X, NSN_OM11) >>,
      << new_product(ID_B, NAME_X, NSN_OM11) >>,
      << new_product(ID_A, NAME_X, NSN_OM11),
         new_product(ID_B, NAME_Y, NSN_OM11) >> }

\* streamlit starts the script with products.json in place
InitManager ==
    /\ IdleRender
    /\ IdleCall
    /\ \E catalog \in InitialCatalogs, same_fs \in BOOLEAN :
           save = [NoSave EXCEPT !.products_file = File(catalog),
                                 !.same_fs = same_fs]
    /\ mgr = [NoManager EXCEPT !.pc = "load"]
    /\ job = NoJob
    /\ labels = << >>
    /\ page = NoPage
    /\ png = NoPng

\* main, lines 919-941: products.json is read; a missing, unreadable or
\* empty catalog stops the script, otherwise the page is shown
Load ==
    /\ mgr.pc = "load"
    /\ save.pc = "idle"
    /\ mgr' = IF save.products_file.kind = "json"
                    /\ save.products_file.data # << >>
              THEN [mgr EXCEPT !.pc = "page",
                               !.products_db = save.products_file.data]
              ELSE [mgr EXCEPT !.pc = "stopped", !.products_db = << >>]
    /\ UNCHANGED << renderVars, callVars, save, job, labels, page, png >>

\* lines 740-777: 'Save Product' in mode 'Add New'
AddNew ==
    /\ mgr.pc = "page"
    /\ Len(mgr.products_db) < MaxProducts
    /\ \E product_id \in ProductIds, product_name \in ProductNames,
          nsn \in NsnInputs :
         IF ~required_filled(product_id, product_name, nsn)
         THEN /\ mgr' = [mgr EXCEPT !.pc = "load", !.message = "required"]
              /\ UNCHANGED save
         ELSE IF ~nsn_valid(nsn)
         THEN /\ mgr' = [mgr EXCEPT !.pc = "load", !.message = "nsn"]
              /\ UNCHANGED save
         ELSE IF id_exists(mgr.products_db, product_id)
         THEN /\ mgr' = [mgr EXCEPT !.pc = "load", !.message = "exists"]
              /\ UNCHANGED save
         ELSE LET db == Append(mgr.products_db,
                               new_product(product_id, product_name, nsn))
              IN  /\ mgr' = [mgr EXCEPT !.pc = "saving", !.products_db = db,
                                        !.message = "none"]
                  /\ save' = enter_save(db)
    /\ UNCHANGED << renderVars, callVars, job, labels, page, png >>

\* lines 740-768, 778-786: 'Update Product' in mode 'Edit Existing'; the
\* disabled Product ID input holds the id selected
EditExisting ==
    /\ mgr.pc = "page"
    /\ \E k \in 1..Len(mgr.products_db), product_name \in ProductNames,
          nsn \in NsnInputs :
         LET product_id == mgr.products_db[k].id IN
         IF ~required_filled(product_id, product_name, nsn)
         THEN /\ mgr' = [mgr EXCEPT !.pc = "load", !.message = "required"]
              /\ UNCHANGED save
         ELSE IF ~nsn_valid(nsn)
         THEN /\ mgr' = [mgr EXCEPT !.pc = "load", !.message = "nsn"]
              /\ UNCHANGED save
         ELSE LET db == replace_first(
                            mgr.products_db, product_id,
                            new_product(product_id, product_name, nsn))
              IN  /\ mgr' = [mgr EXCEPT !.pc = "saving", !.products_db = db,
                                        !.message = "none"]
                  /\ save' = enter_save(db)
    /\ UNCHANGED << renderVars, callVars, job, labels, page, png >>

\* lines 790-821: 'Delete' confirmed with 'Yes, Delete'
Delete ==
    /\ mgr.pc = "page"
    /\ \E k \in 1..Len(mgr.products_db) :
         LET db == without(mgr.products_db, mgr.products_db[k].id) IN
         /\ mgr' = [mgr EXCEPT !.pc = "saving", !.products_db = db,
                               !.message = "none"]
         /\ save' = enter_save(db)
    /\ UNCHANGED << renderVars, callVars, job, labels, page, png >>

\* lines 776-777, 785-786, 819-821: st.success, st.rerun()
SaveReturns ==
    /\ mgr.pc = "saving"
    /\ save.pc = "done"
    /\ mgr' = [mgr EXCEPT !.pc = "load", !.message = "saved"]
    /\ save' = [save EXCEPT !.pc = "idle"]
    /\ UNCHANGED << renderVars, callVars, job, labels, page, png >>

\* lines 787-788, 822-823: except Exception as e: st.error
SaveRaises ==
    /\ mgr.pc = "saving"
    /\ save.pc = "raised"
    /\ mgr' = [mgr EXCEPT !.pc = "load", !.message = "error"]
    /\ save' = [save EXCEPT !.pc = "idle"]
    /\ UNCHANGED << renderVars, callVars, job, labels, page, png >>

\* streamlit is started again after the process was stopped
Restart ==
    /\ mgr.pc = "killed"
    /\ mgr' = [mgr EXCEPT !.pc = "load", !.message = "none"]
    /\ save' = [save EXCEPT !.pc = "idle"]
    /\ UNCHANGED << renderVars, callVars, job, labels, page, png >>

NextManager ==
    \/ Load
    \/ AddNew
    \/ EditExisting
    \/ Delete
    \/ save_products_json
    \/ SaveReturns
    \/ SaveRaises
    \/ Restart

SpecManager == InitManager /\ [][NextManager]_vars

-----------------------------------------------------------------------------
(* generate_all_labels of the three batch generators: the PDF generator    *)
(* (dod_label_generator), the CLI PNG generator (dod_label_generator_png)  *)
(* and the drum generator (drum_label_generator).  What a row's            *)
(* create_label / create_label_png does is its outcome: it returns, or it  *)
(* raises an Exception.                                                    *)

MaxRows == 3

Generators == { "pdf", "png", "drum" }

\* validate_data: required_columns
required_columns(generator) ==
    IF generator = "drum"
    THEN { "product_code", "product_name", "batch_number" }
    ELSE { "product_description", "nato_stock_no", "niin", "batch_lot_no",
           "date_of_manufacture" }

\* validate_data that finds every column
missing_columns_unchecked(generator, columns) == { }

\* validate_data: missing_columns
missing_columns(generator, columns) == required_columns(generator) \ columns

\* for idx, row in self.data.iterrows(): ... continue
next_row(i, n, raised) == i + 1

\* the input files: one that cannot be read, and the readable ones, whose
\* columns are the required ones, or all but one of them, and whose rows
\* are named by the outcome of their render
DataFiles(generator) ==
    { [loadable |-> FALSE, columns |-> { }, rows |-> << >>] }
        \cup { [loadable |-> TRUE, columns |-> columns, rows |-> rows] :
                 columns \in { required_columns(generator) }
                                 \cup { required_columns(generator) \ { c } :
                                          c \in required_columns(generator) },
                 rows \in UNION { [1..n -> { "returns", "raises" }] :
                                    n \in 0..MaxRows } }

Message(text, idx) == [text |-> text, row |-> idx]

InitBatch ==
    /\ IdleRender
    /\ IdleCall
    /\ save = NoSave
    /\ mgr = NoManager
    /\ labels = << >>
    /\ page = NoPage
    /\ png = NoPng
    /\ \E generator \in Generators :
         \E file \in DataFiles(generator) :
           job = [NoJob EXCEPT !.generator = generator,
                                   !.data_file = file, !.pc = "load"]

\* if not self.load_data(): return False
BatchLoad ==
    /\ job.pc = "load"
    /\ job' =
         IF job.data_file.loadable
         THEN [job EXCEPT !.pc = "validate"]
         ELSE [job EXCEPT
                  !.pc = "done", !.result = "False",
                  !.printed = Append(@, Message("Error loading data", 0))]
    /\ UNCHANGED << renderVars, callVars, save, mgr, labels, page, png >>

\* if not self.validate_data(): return False
BatchValidate ==
    /\ job.pc = "validate"
    /\ job' =
         IF missing_columns(job.generator, job.data_file.columns) = { }
         THEN [job EXCEPT !.pc = "loop", !.idx = 1]
         ELSE [job EXCEPT
                  !.pc = "done", !.result = "False",
                  !.printed =
                      Append(@, Message("Error: Missing required columns", 0))]
    /\ UNCHANGED << renderVars, callVars, save, mgr, labels, page, png >>

\* one turn of the loop: try: create_label(row, output_path); except
\* Exception: print(...); continue
BatchRender ==
    /\ job.pc = "loop"
    /\ job.idx <= Len(job.data_file.rows)
    /\ LET raised == job.data_file.rows[job.idx] = "raises" IN
       job' =
         [job EXCEPT
            !.attempted = Append(@, job.idx),
            !.written = IF raised THEN @ ELSE @ \cup { job.idx },
            !.printed =
                Append(@, IF raised
                          THEN Message("Error generating label", job.idx)
                          ELSE Message("Generated", job.idx)),
            !.idx = next_row(job.idx, Len(job.data_file.rows), raised)]
    /\ UNCHANGED << renderVars, callVars, save, mgr, labels, page, png >>

\* after the loop: print("Generation complete. ..."); return True
BatchFinish ==
    /\ job.pc = "loop"
    /\ job.idx > Len(job.data_file.rows)
    /\ job' = [job EXCEPT
                    !.pc = "done", !.result = "True",
                    !.printed = Append(@, Message("Generation complete", 0))]
    /\ UNCHANGED << renderVars, callVars, save, mgr, labels, page, png >>

generate_all_labels ==
    \/ BatchLoad
    \/ BatchValidate
    \/ BatchRender
    \/ BatchFinish

SpecBatch == InitBatch /\ [][generate_all_labels]_vars

-----------------------------------------------------------------------------
(* show_label_generator of the dashboard, lines 944-1153: the label form,  *)
(* the session state and the PNG download.  Streamlit runs the function    *)
(* again from its first line after every widget event, so every action     *)
(* ends with the messages and the button state of that run.  The product   *)
(* selected is the sample product, the label size the default one and the  *)
(* date of manufacture the date the date widget always holds.              *)

BatchInputs == { << >>, << "B", "1" >>, << "B", "2" >>, << "B", " ", "1" >> }
TestReportInputs == { << >>, << "-" >>, << " " >>, << "T", "R", "1" >> }

\* line 1033: if override_retest and not test_report_no:
compliance_warning(override_retest, test_report_no) ==
    override_retest /\ test_report_no = << >>

\* line 1054: can_generate = bool(batch_lot_no and date_of_manufacture)
can_generate(batch_lot_no, date_of_manufacture) ==
    batch_lot_no # << >> /\ date_of_manufacture # << >>

\* lines 1033-1057: what one run of the function shows for the widgets
shown(p) ==
    [p EXCEPT !.compliance_warning =
                  compliance_warning(p.override_retest, p.test_report_no),
              !.can_generate = can_generate(p.batch_lot_no, D_15_11_2025)]

\* lines 1064-1081: row_data, the product's fields with the manual inputs
row_data(p) ==
    [SampleRow EXCEPT
        !["batch_lot_no"] = Str(p.batch_lot_no),
        !["date_of_manufacture"] = Str(D_15_11_2025),
        !["test_report_no"] = Str(p.test_report_no),
        !["retest_date"] = IF p.override_retest THEN Str(D_01_06_2026)
                           ELSE None]

IsAlnum(c) == c \in Range(Digits) \cup Range(Uppers) \cup Range(Lowers)

\* line 1128: every character that is not alphanumeric or one of - _ .
\* becomes _
sanitized(chars) ==
    [i \in 1..Len(chars) |->
        IF IsAlnum(chars[i]) \/ chars[i] \in { "-", "_", "." }
        THEN chars[i] ELSE "_"]

\* lines 1127-1128: the file name, as its parts between the underscores
\* (the last part, the time of the click, is left out)
download_file_name(product_description, batch, label_size) ==
    [ product |-> sanitized(product_description), batch |-> sanitized(batch),
      size |-> label_size ]

\* line 988: the batch text input is edited
EditBatch ==
    /\ \E text \in BatchInputs :
         /\ text # page.batch_lot_no
         /\ page' = shown([page EXCEPT !.batch_lot_no = text,
                                       !.file_name = NoFileName])
    /\ UNCHANGED << renderVars, callVars, save, mgr, job, labels, png >>

\* line 1002: the test report text input is edited
EditTestReport ==
    /\ \E text \in TestReportInputs :
         /\ text # page.test_report_no
         /\ page' = shown([page EXCEPT !.test_report_no = text,
                                       !.file_name = NoFileName])
    /\ UNCHANGED << renderVars, callVars, save, mgr, job, labels, png >>

\* line 1018: the override checkbox is ticked or cleared
ToggleOverride ==
    /\ page' = shown([page EXCEPT !.override_retest = ~page.override_retest,
                                  !.file_name = NoFileName])
    /\ UNCHANGED << renderVars, callVars, save, mgr, job, labels, png >>

\* lines 1061-1092: Generate Label, enabled by can_generate; the label of
\* row_data and row_data go to st.session_state
ClickGenerate ==
    /\ page.can_generate
    /\ page' = shown([page EXCEPT !.current_label = row_data(page),
                                  !.current_label_data = row_data(page),
                                  !.file_name = NoFileName])
    /\ UNCHANGED << renderVars, callVars, save, mgr, job, labels, png >>

\* lines 1095-1142: Download PNG, shown once a label is in the session
\* state; the file name is built and handed to the download button
ClickDownload ==
    /\ page.current_label # NoLabel
    /\ page' = shown([page EXCEPT
                         !.file_name =
                             download_file_name(
                                 page.current_label_data["product_description"].s,
                                 page.batch_lot_no,
                                 DEFAULT_LABEL_SIZE)])
    /\ UNCHANGED << renderVars, callVars, save, mgr, job, labels, png >>

InitLabelPage ==
    /\ IdleRender
    /\ IdleCall
    /\ IdleApp

show_label_generator ==
    \/ EditBatch
    \/ EditTestReport
    \/ ToggleOverride
    \/ ClickGenerate
    \/ ClickDownload

SpecLabelPage == InitLabelPage /\ [][show_label_generator]_vars

-----------------------------------------------------------------------------
(* create_label_png of the CLI PNG generator (dod_label_generator_png),    *)
(* lines 249-570, as the names each block of statements reads and assigns. *)
(* A name assigned anywhere in the function is a local of it, and reading  *)
(* it before an assignment has run raises UnboundLocalError; a name        *)
(* assigned nowhere is looked up as a global, and raises NameError when    *)
(* the module has no such global.                                          *)

PngParameters == { "self", "row", "output_path" }

\* the blocks in the order they run; "if" names the test a block runs under
PngBlocks ==
    << [ lines |-> << 252, 274 >>, if |-> "always",
         reads |-> { "self" },
         writes |-> { "img", "draw", "font_large", "font_header", "font_body",
                      "font_small", "font_data", "cut_color", "x0", "y0",
                      "x1", "y1", "dash_len", "x", "y" } ],
       [ lines |-> << 277, 288 >>, if |-> "always",
         reads |-> { "self", "row" },
         writes |-> { "margin_px", "x_left", "x_right", "content_width",
                      "y_pos", "use_by_date", "expiry_date_obj",
                      "dom_formatted" } ],
       [ lines |-> << 291, 314 >>, if |-> "always",
         reads |-> { "self", "row", "draw", "font_large", "font_header",
                     "y_pos", "x_left", "x_right", "margin_px" },
         writes |-> { "product_desc", "bbox", "text_width", "text_x",
                      "nato_stock", "border_top", "border_bottom" } ],
       [ lines |-> << 317, 334 >>, if |-> "always",
         reads |-> { "self", "row", "img", "x_left", "y_pos" },
         writes |-> { "niin", "unit_issue", "niin_barcode",
                      "barcode_height_px" } ],
       [ lines |-> << 337, 340 >>, if |-> "always",
         reads |-> { "self", "draw", "x_left", "y_pos", "font_small",
                     "font_data", "unit_issue" },
         writes |-> { "unit_x", "unit_label_width" } ],
       [ lines |-> << 344, 344 >>, if |-> "always",
         reads |-> { "hazmat_code" },
         writes |-> { } ],
       [ lines |-> << 346, 373 >>, if |-> "hazmat_code",
         reads |-> { "self", "draw", "unit_issue", "font_data", "unit_x",
                     "unit_label_width", "y_pos", "font_tiny", "hazmat_code" },
         writes |-> { "unit_text_width", "hazard_x", "hazard_label",
                      "hazard_label_bbox", "box_y", "box_size",
                      "class_num_bbox", "text_w", "text_h", "text_x",
                      "text_y" } ],
       [ lines |-> << 376, 401 >>, if |-> "always",
         reads |-> { "self", "row", "draw", "img", "nato_stock",
                     "expiry_date_obj", "x_left", "x_right", "y_pos",
                     "barcode_height_px", "font_small", "font_data", "niin" },
         writes |-> { "datamatrix", "niin_label_width", "y_pos" } ],
       [ lines |-> << 404, 456 >>, if |-> "always",
         reads |-> { "self", "row", "draw", "img", "expiry_date_obj", "x_left",
                     "x_right", "y_pos", "font_small", "font_data",
                     "use_by_date" },
         writes |-> { "batch_lot", "batch_barcode", "use_by_barcode_text",
                      "use_by_barcode", "barcode_row_height",
                      "batch_managed_raw", "batch_managed", "blm_width",
                      "use_by_x", "ubd_width", "y_pos" } ],
       [ lines |-> << 459, 545 >>, if |-> "always",
         reads |-> { "self", "row", "draw", "x_left", "x_right", "y_pos",
                     "batch_lot", "dom_formatted", "use_by_date",
                     "font_small", "font_data" },
         writes |-> { "nato_code", "jsd_ref", "spec", "capacity",
                      "test_report", "hazmat_code", "table_data",
                      "row_height", "col1_width", "label", "value",
                      "text_y", "nato_code_val", "jsd_ref_val", "value_x",
                      "current_x", "y_pos" } ],
       [ lines |-> << 548, 567 >>, if |-> "always",
         reads |-> { "self", "row", "draw", "x_left", "x_right", "y_pos",
                     "font_small" },
         writes |-> { "safety_markings", "contractor_details", "y_pos" } ],
       [ lines |-> << 570, 570 >>, if |-> "always",
         reads |-> { "self", "img", "output_path" },
         writes |-> { } ] >>

\* the locals of the function: its parameters and every name it assigns
PngLocals == PngParameters \cup UNION { PngBlocks[i].writes : i \in DOMAIN PngBlocks }

\* the names of the module's globals among the names read: none of them
PngGlobals == { }

\* generate_all_labels line 586: self.create_label_png(row, png_path)
png_entry(r) ==
    [ pc |-> 1, row |-> r, bound |-> PngParameters, raised |-> "none",
      name |-> "none", saved |-> FALSE ]

\* whether the block about to run is entered
png_block_runs(p) ==
    \/ PngBlocks[p.pc].if = "always"
    \/ hazard_box_drawn(
           safe_str(Get(p.row, "hazardous_material_code", EMPTY), DASH))

\* the names the block about to run reads that have no value
png_unbound(p) == PngBlocks[p.pc].reads \ (p.bound \cup PngGlobals)

\* one block of create_label_png runs: it raises at a name without a value,
\* or binds the names it assigns; the last block saves the image
PngBlock ==
    /\ png.pc \in DOMAIN PngBlocks
    /\ png' =
         IF ~png_block_runs(png) THEN [png EXCEPT !.pc = @ + 1]
         ELSE IF png_unbound(png) # { }
         THEN LET n == CHOOSE n \in png_unbound(png) : TRUE IN
              [png EXCEPT !.pc = 0, !.name = n,
                          !.raised = IF n \in PngLocals
                                     THEN "UnboundLocalError"
                                     ELSE "NameError"]
         ELSE [png EXCEPT !.pc = @ + 1,
                          !.bound = @ \cup PngBlocks[png.pc].writes,
                          !.saved = (png.pc = Len(PngBlocks))]
    /\ UNCHANGED << renderVars, callVars, save, mgr, job, labels, page >>

\* the rows of a file that passes validate_data
InitPng ==
    /\ IdleRender
    /\ IdleCall
    /\ save = NoSave
    /\ mgr = NoManager
    /\ job = NoJob
    /\ labels = << >>
    /\ page = NoPage
    /\ \E r \in RowsTable \cup RowsSparse : png = png_entry(r)

SpecPng == InitPng /\ [][PngBlock]_vars

-----------------------------------------------------------------------------
(* Claims *)

AfterBegin == pc \in { "header", "niin_row", "barcode_row", "table", "safety",
                       "contractor", "done", "raised" }
AfterNiinRow == pc \in { "barcode_row", "table", "safety", "contractor", "done",
                         "raised" }
AfterBarcodeRow == pc \in { "table", "safety", "contractor", "done", "raised" }

\* C1: create_label_png of the dashboard engine never raises: for every
\* field record the render runs to its return and no section ends in an
\* exception.
C1_NeverRaises == pc # "raised"

\* C2: the NIIN printed next to 'NIIN:' and the NIIN encoded in the Code 39
\* barcode are both exactly 9 digits: the last 9 digits extracted from the
\* NSN, left-padded with zeros ('000000000' for a blank NSN).
C2_NiinNineDigits ==
    AfterNiinRow =>
        LET v == Get(row, "nato_stock_no", EMPTY)
            digits == IF IsNa(v) THEN << >> ELSE FilterDigits(PyStr(v))
            expected == ZFill(Suffix(digits, 9), 9)
        IN  /\ Len(niin) = 9 /\ AllDigits(niin)
            /\ niin = expected
            /\ barcodes.niin = expected

\* the batch argument as the string the claim cuts: empty for None, NaN and
\* every other false value
C3_Batch(b) ==
    IF b.k = "str" THEN b.s
    ELSE IF b.k = "int" /\ b.n # 0 THEN PyStr(b) ELSE << >>

\* C3: the data string generate_gs1_datamatrix encodes is '7001', 13
\* digits, GS, '10', the batch cut to at most 20 characters, GS, '17' and
\* the 6 digits YYMMDD of the expiry, and nothing after them (no AI 21).
C3_PayloadFormat ==
    Returned("generate_gs1_datamatrix") =>
        LET whole == C3_Batch(call.args[2])
            b == IF Len(whole) > 20 THEN SubSeq(whole, 1, 20) ELSE whole
            e == call.args[3]
            n == Len(b)
        IN  /\ Len(ret) = 4 + 13 + 1 + 2 + n + 1 + 2 + 6
            /\ SubSeq(ret, 1, 4) = << "7", "0", "0", "1" >>
            /\ AllDigits(SubSeq(ret, 5, 17))
            /\ ret[18] = GS
            /\ SubSeq(ret, 19, 20) = << "1", "0" >>
            /\ SubSeq(ret, 21, 20 + n) = b
            /\ ret[21 + n] = GS
            /\ SubSeq(ret, 22 + n, 23 + n) = << "1", "7" >>
            /\ AllDigits(SubSeq(ret, 24 + n, 29 + n))
            /\ e # NoDate =>
                   /\ DigitsVal(SubSeq(ret, 24 + n, 25 + n)) = e.y % 100
                   /\ DigitsVal(SubSeq(ret, 26 + n, 27 + n)) = e.m
                   /\ DigitsVal(SubSeq(ret, 28 + n, 29 + n)) = e.d

\* C3 witness: a call returned whose NSN had to be padded, whose batch had
\* to be cut and whose expiry is a date
C3_Witness ==
    /\ Returned("generate_gs1_datamatrix")
    /\ Len(FilterDigits(PyStr(call.args[1]))) = 4
    /\ Len(PyStr(call.args[2])) = 22
    /\ call.args[3] = [y |-> 2028, m |-> 11, d |-> 15]
    /\ Len(ret) = 49

\* C4: in the GS1 payload no Group Separator directly follows a
\* fixed-length field (the 13-digit AI 7001 NSN, the 6-digit AI 17 expiry)
\* and the payload does not end with one.
C4_NoSeparatorAfterFixed ==
    Returned("generate_gs1_datamatrix") =>
        /\ ret[4 + 13 + 1] # GS
        /\ ret[Len(ret)] # GS

\* C5: of more than 13 extracted digits the first 13 follow AI 7001
\* (truncation from the right); fewer than 13 are left-padded with zeros.
C5_NsnFirstThirteen ==
    Returned("generate_gs1_datamatrix") =>
        LET digits == FilterDigits(PyStr(call.args[1]))
            placed == SubSeq(ret, 5, 17)
        IN  /\ Len(digits) > 13 => placed = SubSeq(digits, 1, 13)
            /\ Len(digits) < 13 => placed = ZFill(digits, 13)

C6_Case(d, n, e) ==
    call.args = << Str(d), Num(n) >> => ret.text = e

\* C6: calculate_dates of the dashboard engine returns the date N calendar
\* months after the manufacture date with the same day of month, cut to the
\* last day of the target month when the day does not exist.
C6_CalendarMonths ==
    Returned("app.calculate_dates") =>
        LET dom == StrpTime(call.args[1].s)
            n == call.args[2].n
            e == ret.date
        IN  /\ ValidDate(e)
            /\ 12 * e.y + e.m = 12 * dom.y + dom.m + n
            /\ e.d <= dom.d
            /\ e.d < dom.d => e.d = DaysInMonth(e.y, e.m)
            /\ C6_Case(D_31_01_2025, 1, S_28_FEB_25)
            /\ C6_Case(D_15_11_2025, 36, S_15_NOV_28)
            /\ C6_Case(D_12_11_2024, 18, S_12_MAY_26)
            /\ C6_Case(D_31_12_2025, 24, S_31_DEC_27)

\* C6 witness: 31/01/2025 + 1 month returned 28 February 2025
C6_Witness ==
    /\ Returned("app.calculate_dates")
    /\ call.args = << Str(D_31_01_2025), Num(1) >>
    /\ ret.date = [y |-> 2025, m |-> 2, d |-> 28]

\* C7: calculate_dates of the PDF generator and of the CLI PNG generator
\* return the same expiry date as the dashboard engine's calculate_dates.
C7_SameExpiryAsDashboard ==
    Returned("pdf.calculate_dates") \/ Returned("png.calculate_dates") =>
        ret.date = calculate_dates(call.args[1], call.args[2]).date

\* C8: when date_of_manufacture is missing or not DD/MM/YYYY the expiry is
\* null, the use-by text is 'N/A', the DataMatrix carries AI 17 = '990101'
\* and the use-by Code 128 barcode carries '01JAN99'.
C8_NoManufactureDateNoExpiry ==
    LET v == row["date_of_manufacture"] IN
    v.k = "absent" \/ StrpTime(PyStr(v)) = NoDate =>
        /\ AfterBegin =>
               /\ expiry_date_obj = NoDate
               /\ use_by_date = NA_TEXT
        /\ AfterNiinRow =>
               Suffix(barcodes.datamatrix, 6) = << "9", "9", "0", "1", "0", "1" >>
        /\ AfterBarcodeRow =>
               barcodes.use_by = << "0", "1", "J", "A", "N", "9", "9" >>

\* C9: a shelf_life_months that is missing, NaN or not parseable as an
\* integer gives the expiry of a shelf life of 24 months; it never turns a
\* valid manufacture date into a null expiry.
C9_BadShelfLifeIsTwentyFour ==
    LET v == row["date_of_manufacture"]
        shelf == row["shelf_life_months"]
    IN  /\ AfterBegin
        /\ v.k = "str" /\ StrpTime(v.s) # NoDate
        /\ shelf.k = "absent" \/ IsNa(shelf) \/ ~CanInt(shelf)
        => /\ expiry_date_obj # NoDate
           /\ expiry_date_obj = AddMonths(StrpTime(v.s), 24)

C10_SixTokens ==
    { S_n_a, << "-" >>, << >>, S_none,
      S_blank, S_na }

\* C10 as stated: safe_str returns default for None, NaN and the blank
\* tokens 'n/a', '-', '', 'none', 'blank', 'na' (trimmed, any case), and
\* the trimmed string of every other value.
C10_SixTokensOnly ==
    Returned("safe_str") =>
        LET v == call.args[1]
            blank == IsNa(v) \/ Lower(Strip(PyStr(v))) \in C10_SixTokens
        IN  ret = IF blank THEN call.args[2] ELSE Strip(PyStr(v))

C10_Blank(v) ==
    \/ v \in { None, NaN }
    \/ Lower(PyStr(v)) = S_nan
    \/ Lower(Strip(PyStr(v)))
           \in C10_SixTokens
                 \cup { S_not_applicable_or_blank,
                        S_dash_blank }

\* C10 amended: safe_str returns default for None, NaN, every value whose
\* untrimmed string is 'nan' in any case, and every value whose trimmed
\* string is, in any case, one of 'n/a', '-', '', 'none', 'blank', 'na',
\* 'not applicable or blank', '-/blank'; it returns the trimmed string of
\* every other value.
C10_BlankTokensGiveDefault ==
    Returned("safe_str") =>
        /\ C10_Blank(call.args[1]) => ret = call.args[2]
        /\ ~C10_Blank(call.args[1]) =>
               /\ ret = Strip(PyStr(call.args[1]))
               /\ ret # << >>

\* C10 witness: the string 'NaN' returned the default
C10_Witness ==
    /\ Returned("safe_str")
    /\ call.args = << Str(S_NaN), NA_TEXT >>
    /\ ret = NA_TEXT


AfterTable == pc \in { "safety", "contractor", "done", "raised" }

\* C11: the 'Re-Test Date' row of the table shows the reformatted override
\* when retest_date is supplied and not blank, and the computed use-by date
\* when retest_date is absent, None, NaN or a recognized blank token.
C11_RetestOverrideOrUseBy ==
    AfterTable =>
        LET v == row["retest_date"]
            blank == v.k = "absent" \/ safe_str(v, << >>) = << >>
        IN  /\ table_data[6][1] = "Re-Test Date:"
            /\ table_data[6][2] = IF blank THEN use_by_date
                                  ELSE format_date_display(PyStr(v))


C12_Dashes(rows) == \A i \in { 2, 3, 4, 5, 7 } : rows[i][2] = DASH

C13_OldOrNewNeverPartial ==
    save.pc # "idle" =>
        /\ save.products_file \in { save.previous, File(save.products_db) }
        /\ save.pc = "done" =>
               /\ save.products_file = File(save.products_db)
               /\ save.backup_file = NoFile
        /\ save.pc = "raised" => save.products_file = save.previous

C14_Distinct(products) ==
    \A i, j \in 1..Len(products) : products[i].id = products[j].id => i = j

\* C14: the IDs stored in the catalog stay pairwise distinct through every
\* sequence of Add New, Edit Existing and Delete.
C14_IdsStayDistinct ==
    save.products_file.kind = "json" => C14_Distinct(save.products_file.data)


\* the rows of the input file whose render raises
C15_Failed == { i \in 1..Len(job.data_file.rows) : job.data_file.rows[i] = "raises" }

\* what generate_all_labels prints after the loop
C15_FinalReport == SubSeq(job.printed, Len(job.attempted) + 1, Len(job.printed))

\* C15: in generate_all_labels of the PDF, CLI PNG and drum generators a row
\* whose render raises does not stop the batch: the rows are attempted once
\* each in input order, when the call has returned True every row was
\* attempted and every row that did not raise has its label, and each row
\* that raised is named in what is reported after the last row.
C15_ContinuesAndReportsErrors ==
    /\ \A i \in 1..Len(job.attempted) : job.attempted[i] = i
    /\ job.pc = "done" /\ job.result = "True" =>
         /\ Len(job.attempted) = Len(job.data_file.rows)
         /\ job.written = (1..Len(job.data_file.rows)) \ C15_Failed
         /\ \A i \in C15_Failed :
              \E k \in 1..Len(C15_FinalReport) : C15_FinalReport[k].row = i

\* no label is written and no row attempted for a file that cannot be loaded
\* or lacks a required column
C16_Rejected ==
    \/ ~job.data_file.loadable
    \/ required_columns(job.generator) \ job.data_file.columns # { }

\* C16: when the input file cannot be loaded or lacks a required column,
\* generate_all_labels never attempts a row and writes no label, and it
\* returns False; a row is attempted only after load_data and validate_data
\* both succeeded.
C16_RejectBeforeRender ==
    /\ job.pc # "idle" /\ C16_Rejected =>
         /\ job.attempted = << >>
         /\ job.written = { }
         /\ job.result # "True"
         /\ job.pc = "done" => job.result = "False"
    /\ job.attempted # << >> =>
         /\ job.data_file.loadable
         /\ required_columns(job.generator) \subseteq job.data_file.columns

\* C16 witness: a loadable file with rows and one required column missing
\* was rejected
C16_Witness ==
    /\ job.pc = "done"
    /\ job.data_file.loadable
    /\ job.data_file.rows # << >>
    /\ required_columns(job.generator) \ job.data_file.columns # { }
    /\ job.result = "False"


\* C17: create_label_png changes no field of the generator instance and not
\* the record it renders; each call starts from its own empty locals; and a
\* record rendered again on the instance, after any other records, ends at
\* the same section, with the same cursor, texts, table and barcode payloads
\* as every earlier render of it, the first of which ran on the fresh
\* instance.
C17_RenderLeavesInstanceAndRecord ==
    [][ /\ self' = self
        /\ pc \notin { "done", "raised" } => row' = row
        /\ pc' = "begin" => Locals0'
        /\ \A i, j \in 1..Len(labels') :
             labels'[i].row = labels'[j].row => labels'[i] = labels'[j]
        /\ pc' \in { "done", "raised" } =>
             \A i \in 1..Len(labels') :
               labels'[i].row = row' => labels'[i] = label_of_call'
      ]_vars

\* C17 witness: a record was rendered on the fresh instance, then another
\* record, then the first again, and the third call returned what the first
\* returned
C17_Witness ==
    /\ Len(labels) = 2
    /\ pc = "done"
    /\ labels[1].row = row
    /\ labels[1].pc = "done"
    /\ labels[2].row # row
    /\ labels[1] = label_of_call


\* C19: mm_to_px(v, dpi) is the whole part of v * dpi / 25.4 taken as real
\* numbers, it does not decrease when v grows at one dpi, and equal
\* arguments give equal results.
C19_FloorAndMonotonic ==
    Returned("mm_to_px") =>
        LET x == call.args[1]
            y == call.args[2]
            dpi == call.args[3]
        IN  /\ ret[1] = (x * dpi) \div TENTH_MM_PER_INCH
            /\ ret[2] = (y * dpi) \div TENTH_MM_PER_INCH
            /\ x <= y => ret[1] <= ret[2]
            /\ x = y => ret[1] = ret[2]


\* the sides, in tenths of a millimetre, of the preset a size key selects
C18_Sides(label_size) ==
    IF label_size \in DOMAIN LABEL_SIZES THEN LABEL_SIZES[label_size]
    ELSE LABEL_SIZES[DEFAULT_LABEL_SIZE]

\* C18: with every size key and DPI, the canvas create_label_png draws on is
\* mm_to_px(width + 2 * bleed) by mm_to_px(height + 2 * bleed) pixels for
\* the sides of the preset, or of the default preset when the key is
\* unknown, and the cut-line rectangle, from (bleed_px, bleed_px) and
\* label_width_px by label_height_px in size, lies inside the canvas.
C18_CanvasAndCutLine ==
    pc = "header" =>
        LET sides == C18_Sides(self.label_size)
            width_px == mm_to_px(FloatOfTenths(sides[1]), self.dpi)
            height_px == mm_to_px(FloatOfTenths(sides[2]), self.dpi)
            bleed == mm_to_px(FloatOfTenths(BLEED_MM), self.dpi)
        IN  /\ drawn.canvas =
                 << mm_to_px(FloatOfTenths(sides[1] + 2 * BLEED_MM), self.dpi),
                    mm_to_px(FloatOfTenths(sides[2] + 2 * BLEED_MM), self.dpi) >>
            /\ drawn.cut_line =
                 << bleed, bleed, bleed + width_px, bleed + height_px >>
            /\ 0 <= drawn.cut_line[1]
            /\ 0 <= drawn.cut_line[2]
            /\ drawn.cut_line[1] <= drawn.cut_line[3]
            /\ drawn.cut_line[2] <= drawn.cut_line[4]
            /\ drawn.cut_line[3] <= drawn.canvas[1]
            /\ drawn.cut_line[4] <= drawn.canvas[2]

\* C18 witness: the canvas and the cut-line are drawn on an instance made
\* with an unknown size key at a DPI other than the default
C18_Witness ==
    /\ pc = "header"
    /\ self.label_size \notin DOMAIN LABEL_SIZES
    /\ self.dpi # DPI
    /\ drawn.canvas[1] > 0
    /\ drawn.cut_line[3] > drawn.cut_line[1]
    /\ drawn.cut_line[3] < drawn.canvas[1]


\* the fixed order of the sections: header and top border, NIIN barcode row
\* and separator, batch / use-by barcode row with captions and separator,
\* information table, safety-markings block, contractor block
C20_Order ==
    { << "begin", "header" >>, << "header", "niin_row" >>,
      << "niin_row", "barcode_row" >>, << "barcode_row", "table" >>,
      << "table", "safety" >>, << "safety", "contractor" >>,
      << "contractor", "done" >> }

\* C20: in create_label_png the vertical cursor never decreases, the
\* sections are committed in the fixed order, and every render ends with
\* the safety-markings block committed, with the placeholder when its value
\* is blank.
C20_CursorOrderAndSafetyBlock ==
    [][ /\ y_pos' >= y_pos
        /\ << pc, pc' >> \in C20_Order
        /\ pc' = "contractor" =>
             /\ drawn'.safety_markings # NoData
             /\ drawn'.safety_markings # << >>
      ]_vars


\* the contractor text after normalisation, and the bottom of its box: the
\* cursor plus one line height (small font + 0.5 mm) for every
\* pipe-separated line plus 2 mm
C21_Text == safe_str(Get(row, "contractor_details", EMPTY), << >>)

C21_Lines == Cardinality({ i \in 1..Len(C21_Text) : C21_Text[i] = "|" }) + 1

C21_BoxBottom ==
    y_pos + C21_Lines * (self.FONT_SIZE_SMALL + literal_px(5, self.dpi))
          + literal_px(20, self.dpi)

\* C21: the contractor section always ends the render without raising; the
\* block is drawn exactly when the normalised contractor_details is not
\* blank and the bottom of the box is strictly above the bottom border less
\* 2 mm, and the box of a drawn block ends above the bottom border.
C21_ContractorDrawnIffFits ==
    [][ pc = "contractor" =>
          /\ pc' = "done"
          /\ (drawn'.contractor # << >>)
                <=> /\ C21_Text # << >>
                    /\ C21_BoxBottom
                           < border_bottom(self) - literal_px(20, self.dpi)
          /\ drawn'.contractor # << >> =>
                /\ Len(drawn'.contractor) = C21_Lines
                /\ C21_BoxBottom < border_bottom(self)
      ]_vars

\* C21 witness: a render that drew a contractor block of three lines
C21_Witness ==
    /\ pc = "done"
    /\ Len(drawn.contractor) = 3
    /\ row["contractor_details"] = Str(CONTRACTOR_3_LINES)


\* the cursor at the start of each section, from the instance alone: top
\* margin; title and stock-number lines; 10 mm barcode row with the NIIN
\* text; 10 mm barcode row with the captions; seven table rows; safety block
C22_AfterHeader(g) ==
    g.bleed_px + literal_px(30, g.dpi)
        + g.FONT_SIZE_LARGE + literal_px(20, g.dpi)
        + g.FONT_SIZE_HEADER + literal_px(20, g.dpi) + literal_px(10, g.dpi)

C22_AfterNiinRow(g) ==
    C22_AfterHeader(g)
        + literal_px(100, g.dpi) + literal_px(20, g.dpi)
        + g.FONT_SIZE_DATA + literal_px(30, g.dpi) + literal_px(20, g.dpi)

C22_AfterBarcodeRow(g) ==
    C22_AfterNiinRow(g)
        + literal_px(100, g.dpi) + literal_px(10, g.dpi)
        + g.FONT_SIZE_DATA + literal_px(20, g.dpi) + literal_px(10, g.dpi)

C22_AfterTable(g) ==
    C22_AfterBarcodeRow(g)
        + 7 * (g.FONT_SIZE_DATA + literal_px(20, g.dpi)) + literal_px(10, g.dpi)

C22_AfterSafety(g) ==
    C22_AfterTable(g)
        + g.FONT_SIZE_SMALL + literal_px(20, g.dpi)
        + g.FONT_SIZE_DATA + literal_px(30, g.dpi) + literal_px(10, g.dpi)

C22_Cursor(g) ==
    [ s \in { "barcode_row", "table", "raised", "safety", "contractor",
              "done" } |->
        CASE s = "barcode_row" -> C22_AfterNiinRow(g)
          [] s \in { "table", "raised" } -> C22_AfterBarcodeRow(g)
          [] s = "safety" -> C22_AfterTable(g)
          [] OTHER -> C22_AfterSafety(g) ]

\* the record with its hazard code removed
C22_RowWithoutHazard == [row EXCEPT !["hazardous_material_code"] = Absent]

\* C22: once the NIIN row is drawn, the hazard box is there exactly when the
\* normalised hazardous_material_code is not "-"; the cursor after the NIIN
\* row and after every later section is a function of the instance alone,
\* the same with and without the box; and the information table is the one
\* of the record without its hazard code, with no row for it.
C22_HazardBoxTakesNoSpace ==
    pc \in DOMAIN C22_Cursor(self) =>
        /\ drawn.hazard_box
              <=> safe_str(Get(row, "hazardous_material_code", EMPTY), DASH)
                     # DASH
        /\ y_pos = C22_Cursor(self)[pc]
        /\ table_data # << >> =>
              /\ table_data = table_rows(C22_RowWithoutHazard, batch_lot,
                                         dom_formatted, use_by_date)
              /\ \A i \in 1..Len(table_data) :
                     /\ table_data[i][1] # "Hazardous Material Code:"
                     /\ hazmat_code # DASH => table_data[i][2] # hazmat_code

\* C22 witness: a finished render with the hazard box of class 3 drawn and
\* the seven table rows below it
C22_Witness ==
    /\ pc = "done"
    /\ drawn.hazard_box
    /\ hazmat_code = S_3
    /\ drawn.rows = 7


\* an encoder input that is empty or the placeholder once trimmed
C23_Blank(data) == Strip(data) \in { << >>, DASH }

\* C23: in a render each encoder gives no barcode when its input field is
\* empty or "-" (Code 39 for the NIIN, the DataMatrix for the NSN, Code 128
\* for the batch), a barcode that is missing is not pasted, and the cursor
\* after each barcode row is the same with and without the barcodes.
C23_NoBarcodeForBlankField ==
    /\ AfterNiinRow =>
          /\ C23_Blank(niin) => barcodes.niin = NoData
          /\ C23_Blank(nato_stock) => barcodes.datamatrix = NoData
          /\ y_pos = C22_Cursor(self)[pc]
    /\ AfterBarcodeRow =>
          /\ C23_Blank(batch_lot) => barcodes.batch = NoData


\* the batch of the record as the claim normalises it: trimmed, a blank
\* token replaced by the empty string, cut to 20 characters
C24_Batch == Prefix(safe_str(Get(row, "batch_lot_no", EMPTY), << >>), BATCH_MAX)

\* the field of AI 10 in the DataMatrix payload: what stands between
\* "7001", the 13 digits, the separator and "10" in front and the separator,
\* "17" and the six digits behind
C24_Ai10 == SubSeq(barcodes.datamatrix, 21, Len(barcodes.datamatrix) - 9)

\* C24: for one record the batch under AI 10 of the DataMatrix, the batch of
\* the Code 128 batch barcode and the batch of the 'Batch Lot No.:' table
\* row are the same normalised string (no barcode and "-" when it is empty).
C24_OneBatchString ==
    AfterBarcodeRow =>
        /\ C24_Ai10 = C24_Batch
        /\ barcodes.batch = IF C24_Batch = << >> THEN NoData ELSE C24_Batch
        /\ table_data # << >> =>
              table_data[3] = << "Batch Lot No.:",
                                 IF C24_Batch = << >> THEN DASH ELSE C24_Batch >>


\* C25: on the label form, whenever the override is ticked and the test
\* report field holds no reference (it is empty or a blank placeholder such
\* as its default "-"), the compliance warning is shown; and Generate Label
\* is enabled whenever the batch lot number is filled (the date widget is
\* always filled), whether the warning is shown or not.
C25_WarningShownNeverBlocking ==
    /\ ( /\ page.override_retest
         /\ safe_str(Str(page.test_report_no), << >>) = << >> )
          => page.compliance_warning
    /\ page.batch_lot_no # << >> => page.can_generate

\* C29: the batch part of the file name handed to the download button is
\* the batch_lot_no of the record kept in the session state with the label
\* shown, whatever the batch input holds.
C29_FileNameOfStoredRecord ==
    page.file_name # NoFileName =>
        page.file_name.batch
            = sanitized(page.current_label_data["batch_lot_no"].s)


\* C26: create_label_png of the CLI PNG generator runs to its end for every
\* row of a validated file: no read of a local finds it without a value,
\* and a call that has ended has saved its PNG.
C26_PngRenderCompletes ==
    /\ png.raised = "none"
    /\ png.pc = Len(PngBlocks) + 1 => png.saved


\* C27: on each of the eight preset label sizes at 600 DPI the render's
\* cursor after the safety-markings block is at or above the bottom of the
\* main content border: the sections always drawn fit inside the border.
C27_ContentFitsBorder ==
    ( /\ pc \in { "contractor", "done" }
      /\ self.dpi = DPI
      /\ self.label_size \in DOMAIN LABEL_SIZES )
        => y_pos <= border_bottom(self)


\* a products.json that main() reads and routes on: whole JSON holding at
\* least one product
C28_Accepted(file) == file.kind = "json" /\ Len(file.data) >= 1

\* C28: whatever Add New, Edit Existing and Delete did before, a save of
\* the product manager that succeeds leaves a products.json main() accepts,
\* and main() never stops on the run that follows a successful save.
C28_SavedCatalogAccepted ==
    /\ save.pc = "done" => C28_Accepted(save.products_file)
    /\ mgr.message = "saved" => mgr.pc # "stopped"


\* C30: on every preset and at every DPI the canvas is the label plus the
\* bleed in pixels on both sides: total_width_px = label_width_px +
\* 2 * bleed_px and total_height_px = label_height_px + 2 * bleed_px, so the
\* cut-line drawn from (bleed_px, bleed_px) leaves the same band on all
\* four sides.
C30_EqualBleedBands ==
    self.label_size \in DOMAIN LABEL_SIZES =>
        /\ self.total_width_px = self.label_width_px + 2 * self.bleed_px
        /\ self.total_height_px = self.label_height_px + 2 * self.bleed_px

=============================================================================
